---------------------------- MODULE Spec2Model ----------------------------
(***************************************************************************)
(* A model of the KTP deployment script (src/deploy/deploy.py):            *)
(* KTPDeployer.deploy and the operations it calls, run against remote      *)
(* hosts whose file-system, backup directory and clock are part of the     *)
(* state.  Every remote call is a step of its own that may fail.           *)
(***************************************************************************)
EXTENDS Integers, Sequences, FiniteSets, TLC

(***************************************************************************)
(* Bounds of the model.                                                    *)
(***************************************************************************)
\* Seconds the wall clock advances during one invocation, at most.
MaxTime == 1
\* Transient remote failures (exceptions of single calls) injected per run.
MaxFaults == 1
\* Depth of the directory trees _mkdir_p is exercised on in SpecMkdir.
MaxDepth == 2

(***************************************************************************)
(* The configuration document (self.config), as deploy.py reads it.        *)
(***************************************************************************)
\* cluster.get("host") of a cluster whose mapping has no "host" key.
NoKey == "<no key>"

\* self.config["clusters"]: three clusters with an address, one whose host
\* is the empty string and one without a host key.
Config_clusters ==
  [ atl  |-> [host |-> "10.0.0.1", ports |-> <<27015, 27016>>],
    den  |-> [host |-> "10.0.0.2", ports |-> <<27015>>],
    dal  |-> [host |-> "10.0.0.3", ports |-> <<27015>>],
    lan  |-> [host |-> "",         ports |-> <<27015>>],
    bare |-> [host |-> NoKey,      ports |-> <<27015>>] ]

\* "not cluster.get('host')": the key is absent or its value is empty.
NoHost(c) == Config_clusters[c].host \in {NoKey, ""}

\* The clusters that name a machine: each has a remote file system.
Hosts == {c \in DOMAIN Config_clusters : ~NoHost(c)}

\* self.config["paths"]: component -> list of {source, dest, chmod?};
\* chmod = "" stands for a mapping without the "chmod" key.
Config_paths ==
  [ engine  |-> << [source |-> "engine_i486.so",
                    dest   |-> <<"serverfiles", "engine_i486.so">>,
                    chmod  |-> "755"],
                   [source |-> "hlds_run",
                    dest   |-> <<"serverfiles", "hlds_run">>,
                    chmod  |-> ""] >>,
    plugins |-> << [source |-> "ktp.amxx",
                    dest   |-> <<"serverfiles", "dod", "ktp.amxx">>,
                    chmod  |-> ""] >> ]

\* self.config["paths"].get(component, [])
component_paths(component) ==
  IF component \in DOMAIN Config_paths THEN Config_paths[component] ELSE <<>>

\* Every source artifact the configuration names.
Sources ==
  UNION {{Config_paths[k][j].source : j \in DOMAIN Config_paths[k]} :
         k \in DOMAIN Config_paths}

\* self.template_env.list_templates(): one template and one other file.
list_templates == <<"ktp.cfg.j2", "README.md", "amxx.cfg.j2">>

\* template_name.endswith(".j2") and template_name[:-3]
IsTemplate(t) == t \in {"ktp.cfg.j2", "amxx.cfg.j2"}
dest_name(t) ==
  CASE t = "ktp.cfg.j2" -> "ktp.cfg" [] t = "amxx.cfg.j2" -> "amxx.cfg" [] OTHER -> t

(***************************************************************************)
(* Remote paths: a path is the sequence of its segments, <<>> the root.    *)
(***************************************************************************)
\* os.path.dirname of an absolute path; the root is its own parent.
dirname(p) == IF p = <<>> THEN <<>> ELSE SubSeq(p, 1, Len(p) - 1)
\* os.path.basename
basename(p) == p[Len(p)]

\* f"/home/{cluster['user']}"
home_dir == <<"home", "ktp">>
\* f"{home_dir}/backups/{self.version}"
backup_dir == home_dir \o <<"backups", "v1">>
\* f"dod-{port}"
server_dir(port) == IF port = 27015 THEN "dod-27015" ELSE "dod-27016"
\* _get_server_dirs(cluster)
_get_server_dirs(c) ==
  [i \in DOMAIN Config_clusters[c].ports |-> server_dir(Config_clusters[c].ports[i])]
\* f"{home_dir}/{server_dir}/{path_config['dest']}"
DestPath(sd, m) == home_dir \o <<sd>> \o m.dest
\* f"{home_dir}/{server_dir}/serverfiles/dod/addons/ktpamx/configs"
tmpl_config_dir(sd) ==
  home_dir \o <<sd, "serverfiles", "dod", "addons", "ktpamx", "configs">>
\* f"{home_dir}/dod-{port}/lgsm/config-lgsm/dodserver"
lgsm_config_dir(port) ==
  home_dir \o <<server_dir(port), "lgsm", "config-lgsm", "dodserver">>
\* "dodserver" if i == 1 else f"dodserver{i}", with ".cfg"
exec_cfg(i) == IF i = 1 THEN "dodserver.cfg" ELSE "dodserver2.cfg"
lgsm_config_file(port, i) == lgsm_config_dir(port) \o <<exec_cfg(i)>>

(***************************************************************************)
(* Remote file systems: a function from the existing paths to nodes.       *)
(***************************************************************************)
NoData == [tag |-> "", of |-> <<>>]
DirNode == [kind |-> "dir", data |-> NoData, mode |-> "755", lines |-> <<>>]
\* A directory the connecting user may not create entries in.
RoDirNode == [kind |-> "dir", data |-> NoData, mode |-> "555", lines |-> <<>>]
FileNode(d, m, l) == [kind |-> "file", data |-> d, mode |-> m, lines |-> l]
\* What a destination holds before the deployment, distinct per destination.
OldData(p) == [tag |-> "old", of |-> p]
\* The content of a local artifact, and of a half-written upload of it.
NewData(source) == [tag |-> "new", of |-> <<source>>]
TornData(source) == [tag |-> "torn", of |-> <<source>>]

\* All prefixes of p, the root and p included.
Prefixes(p) == {SubSeq(p, 1, n) : n \in 0..Len(p)}

Exists(fs, p) == p \in DOMAIN fs
IsDir(fs, p) == p \in DOMAIN fs /\ fs[p].kind = "dir"
IsFile(fs, p) == p \in DOMAIN fs /\ fs[p].kind = "file"

\* The file system with node n at path p.
WithNode(fs, p, n) == [q \in DOMAIN fs \cup {p} |-> IF q = p THEN n ELSE fs[q]]

(***************************************************************************)
(* sftp.mkdir, KTPDeployer._mkdir_p and the shell's mkdir -p.              *)
(***************************************************************************)
\* sftp.mkdir(d): the server creates d when d is absent and its parent is a
\* directory the user may write to; otherwise it answers an error (an IOError,
\* which is an OSError, in the client).
PermitsCreate(fs, d) == IsDir(fs, d) /\ fs[d].mode # "555"
mkdir_ok(fs, d) == ~Exists(fs, d) /\ PermitsCreate(fs, dirname(d))
sftp_mkdir(fs, d) == IF mkdir_ok(fs, d) THEN WithNode(fs, d, DirNode) ELSE fs

\* The while loop of _mkdir_p: the paths whose stat raised FileNotFoundError,
\* from the target upward, up to the first path that exists.
RECURSIVE CollectMissing(_, _)
CollectMissing(fs, remote_path) ==
  IF Exists(fs, remote_path) THEN <<>>
  ELSE CHOOSE dirs \in {<<remote_path>> \o CollectMissing(fs, parent) :
                          parent \in {dirname(remote_path)}} : TRUE

\* reversed(dirs)
Reversed(s) == [i \in 1..Len(s) |-> s[Len(s) + 1 - i]]

\* The order in which _mkdir_p issues its sftp.mkdir calls.
MkdirOrderLeafFirst(fs, remote_path) == CollectMissing(fs, remote_path)
MkdirOrder(fs, remote_path) == Reversed(CollectMissing(fs, remote_path))

\* The for loop of _mkdir_p over the first n directories of ds; an OSError
\* of sftp.mkdir is swallowed and the loop goes on.
RECURSIVE MkdirAll(_, _, _)
MkdirAll(fs, ds, n) ==
  IF n = 0 THEN fs
  ELSE CHOOSE after \in {sftp_mkdir(before, ds[n]) :
                           before \in {MkdirAll(fs, ds, n - 1)}} : TRUE

\* _mkdir_p(sftp, remote_path) run to completion.
_mkdir_p(fs, remote_path) ==
  CHOOSE after \in {MkdirAll(before, ds, Len(ds)) :
                      before \in {fs}, ds \in {MkdirOrder(fs, remote_path)}} : TRUE

\* The remote shell's "mkdir -p p": creates every missing prefix of p,
\* or nothing when a prefix is a file.
ShellMkdirP(fs, p) ==
  IF \E q \in Prefixes(p) : IsFile(fs, q) THEN fs
  ELSE [q \in DOMAIN fs \cup Prefixes(p) |-> IF q \in DOMAIN fs THEN fs[q] ELSE DirNode]

(***************************************************************************)
(* The states the remote hosts can be in before the deployment.            *)
(***************************************************************************)
Layouts == {"fresh", "installed", "partial"}

\* The ports of host c whose server directory is populated under layout l:
\* none on a fresh host, all on an installed one, the first on a partial one.
PopulatedPorts(c, l) ==
  LET ports == Config_clusters[c].ports IN
  CASE l = "fresh"     -> {}
    [] l = "installed" -> {ports[i] : i \in DOMAIN ports}
    [] OTHER           -> {ports[1]}

AllMappings ==
  UNION {{Config_paths[k][j] : j \in DOMAIN Config_paths[k]} : k \in DOMAIN Config_paths}

LayoutFiles(c, l) ==
  {DestPath(server_dir(port), m) : port \in PopulatedPorts(c, l), m \in AllMappings}

\* The LinuxGSM instance configs present before the deployment: an installed
\* host has them with a servername line, a partial one without.
LayoutCfgs(c, l) ==
  LET ports == Config_clusters[c].ports IN
  {lgsm_config_file(ports[i], i) : i \in {j \in DOMAIN ports : ports[j] \in PopulatedPorts(c, l)}}

OldCfgLines(l) ==
  IF l = "installed"
  THEN << [key |-> "port", val |-> <<"old", 0>>],
          [key |-> "servername", val |-> <<"old", 0>>],
          [key |-> "maxplayers", val |-> <<"old", 0>>] >>
  ELSE << [key |-> "port", val |-> <<"old", 0>>],
          [key |-> "maxplayers", val |-> <<"old", 0>>] >>

LayoutFs(c, l) ==
  LET files == LayoutFiles(c, l)
      cfgs  == LayoutCfgs(c, l)
      dirs  == UNION {Prefixes(dirname(f)) : f \in files \cup cfgs}
                 \cup Prefixes(home_dir)
                 \cup {home_dir \o <<server_dir(Config_clusters[c].ports[i])>> :
                         i \in DOMAIN Config_clusters[c].ports}
  IN [p \in dirs \cup files \cup cfgs |->
        IF p \in files THEN FileNode(OldData(p), "644", <<>>)
        ELSE IF p \in cfgs THEN FileNode(OldData(p), "644", OldCfgLines(l))
        ELSE DirNode]

(***************************************************************************)
(* The invocations explored: deploy(clusters, components, ...).            *)
(***************************************************************************)
\* (clusters, components) of the invocations explored.  "ghost" is a cluster
\* name and "nonexistent" a component name the configuration does not hold.
Invocation(cl, co) == [clusters |-> cl, components |-> co]
Invocations ==
  { Invocation(<<"atl">>, <<"plugins">>),
    Invocation(<<"den">>, <<"engine">>),
    Invocation(<<"den">>, <<"plugins", "engine">>),
    Invocation(<<"den">>, <<"nonexistent", "plugins">>),
    Invocation(<<"den">>, <<"plugins", "nonexistent">>),
    Invocation(<<"atl", "den">>, <<"plugins">>),
    Invocation(<<"den", "atl">>, <<"plugins">>),
    Invocation(<<"dal", "den">>, <<"plugins", "engine">>),
    Invocation(<<"ghost", "den", "bare">>, <<"plugins">>),
    Invocation(<<"lan", "den", "ghost">>, <<"plugins">>),
    Invocation(<<"lan", "bare">>, <<"plugins", "engine">>) }

SeqRange(s) == {s[i] : i \in DOMAIN s}

VARIABLES
  \* the invocation and its environment (fixed during a run)
  clusters, components, dry_run, deploy_configs_flag, configure_names,
  notify_discord, artifacts, hasTemplates, layout, down,
  \* the remote hosts and the clock
  fs, baks, cpJobs, now,
  \* control: where deploy is, and its loop indices
  pc, ci, ki, si, pi, ti,
  \* locals: the open session (a host or "none"), sessions left open by an
  \* exception, deploy_component's success, the last return value
  ssh, leaked, dcSuccess, ret,
  \* deploy's result
  success, errors,
  \* history: hosts ssh.connect was called for, kinds of remote calls issued,
  \* uploads tried and done, transfer errors of the current component call,
  \* faults injected, notifications posted
  attempted, ops, putTried, uploaded, xferErr, faults, notified, payload,
  \* the state of SpecMkdir: a tree, a target and the calls made on it
  tree, target, mkCalls, mkIssued, treeBefore,
  \* the state of SpecRerun: which run of the invocation this is, and what
  \* the first run left
  run, first,
  \* the state of SpecNames: the instance configs before the step
  cfgBefore,
  \* the state of SpecRelay (hltv-api.py): the request being handled, where
  \* its handler is, the port it parsed (relayPort), whether the port's pipe exists, the
  \* responses sent, the commands written to pipes, the restarts issued
  request, relayPc, relayPort, pipeExists, responses, pipeWritten, restarted

inputVars == <<clusters, components, dry_run, deploy_configs_flag, configure_names,
               notify_discord, artifacts, hasTemplates, layout, down>>
remoteVars == <<fs, baks, cpJobs, now>>
ctlVars == <<pc, ci, ki, si, pi, ti>>
localVars == <<ssh, leaked, dcSuccess, ret>>
resultVars == <<success, errors>>
histVars == <<attempted, ops, putTried, uploaded, xferErr, faults, notified, payload>>
mkVars == <<tree, target, mkCalls, mkIssued, treeBefore>>
rerunVars == <<run, first>>
\* What no step of deploy touches.
namesVars == <<cfgBefore>>
relayVars == <<request, relayPc, relayPort, pipeExists, responses, pipeWritten, restarted>>
otherVars == <<mkVars, rerunVars, namesVars, relayVars>>
vars == <<inputVars, remoteVars, ctlVars, localVars, resultVars, histVars, otherVars>>

\* The remote file systems before the deployment.
pre == [c \in Hosts |-> LayoutFs(c, layout[c])]

NoTree == [p \in {<<>>} |-> DirNode]
NoPayload == [sent |-> FALSE, ok |-> TRUE, field |-> FALSE, shown |-> <<>>, more |-> 0]
NoFirst == [fs |-> <<>>, success |-> TRUE, errors |-> <<>>]
\* No request is being handled by the command relay.
NoRequest == [method |-> "", auth |-> "", path |-> <<>>, length |-> "", body |-> ""]
RelayIdle ==
  /\ request = NoRequest /\ relayPc = "idle" /\ relayPort = 0 /\ pipeExists = FALSE
  /\ responses = <<>> /\ pipeWritten = <<>> /\ restarted = <<>>

\* The hosts an invocation names.
Requested(cl) == SeqRange(cl) \cap Hosts

\* How many of the optional steps an invocation asks for.
Features(names, configs, notify) ==
  (IF names THEN 1 ELSE 0) + (IF configs THEN 1 ELSE 0) + (IF notify THEN 1 ELSE 0)

\* The invocations and environments explored.  Every combination of flags
\* is explored for a dry run and for a run none of whose hosts can be
\* reached; a run that reaches a host asks for at most one optional step
\* (or, for one cluster and one component, for the names and the configs),
\* has templates, and deploys one component when it reaches two hosts.
\* All hosts start in the same layout; an artifact is missing only when its
\* component is asked for.
Init ==
  /\ \E inv \in Invocations :
       /\ clusters = inv.clusters
       /\ components = inv.components
  /\ dry_run \in BOOLEAN
  /\ deploy_configs_flag \in BOOLEAN
  /\ configure_names \in BOOLEAN
  /\ notify_discord \in BOOLEAN
  /\ hasTemplates \in (IF deploy_configs_flag THEN BOOLEAN ELSE {TRUE})
  /\ artifacts \in {Sources} \cup
       (IF "engine" \in SeqRange(components) /\ ~dry_run
        THEN {Sources \ {"engine_i486.so"}} ELSE {})
  /\ \E l \in Layouts : layout = [c \in Hosts |-> l]
  /\ down \in {d \in SUBSET Requested(clusters) : ~dry_run \/ d = {}}
  /\ \/ dry_run
     \/ Requested(clusters) \subseteq down
     \/ /\ Features(configure_names, deploy_configs_flag, notify_discord) <= 1
        /\ hasTemplates
        /\ Cardinality(Requested(clusters) \ down) = 2 => Len(components) = 1
     \/ /\ configure_names /\ deploy_configs_flag /\ ~notify_discord
        /\ hasTemplates
        /\ Len(clusters) = 1 /\ Len(components) = 1
  /\ fs = [c \in Hosts |-> LayoutFs(c, layout[c])]
  /\ baks = [c \in Hosts |-> <<>>]
  /\ cpJobs = {}
  /\ now = 0
  /\ pc = "deploy" /\ ci = 1 /\ ki = 1 /\ si = 1 /\ pi = 1 /\ ti = 1
  /\ ssh = "none" /\ leaked = 0 /\ dcSuccess = TRUE /\ ret = TRUE
  /\ success = TRUE /\ errors = <<>>
  /\ attempted = {} /\ ops = {} /\ putTried = {} /\ uploaded = {}
  /\ xferErr = {} /\ faults = 0 /\ notified = 0 /\ payload = NoPayload
  /\ tree = NoTree /\ target = <<>> /\ mkCalls = 0 /\ mkIssued = <<>>
  /\ treeBefore = NoTree
  /\ run = 1 /\ first = NoFirst
  /\ cfgBefore = <<>>
  /\ RelayIdle

(***************************************************************************)
(* Helpers of the actions.                                                 *)
(***************************************************************************)
\* The cluster, component, port, server directory and mapping at hand.
CurCluster == clusters[ci]
CurComponent == components[ki]
CurPorts == Config_clusters[CurCluster].ports
CurPort == CurPorts[si]
CurMapping == component_paths(CurComponent)[pi]
CurDest == DestPath(_get_server_dirs(CurCluster)[si], CurMapping)
CurFile == <<CurCluster, CurComponent, CurPort, pi>>

\* An entry of deploy's error list.
Err(c, what, arg) == [cluster |-> c, what |-> what, arg |-> arg]

\* The outcomes of one remote call: it returns, or (within the fault budget)
\* it raises.
CanFault == faults < MaxFaults
Outcomes == IF CanFault THEN {"ok", "raise"} ELSE {"ok"}
Count(o) == faults' = IF o = "ok" THEN faults ELSE faults + 1

\* errors.append(entry); success = False  (deploy, lines 514-515, 527-528,
\* 533-534, 539-540)
RecordFailureNoFlag(entry) ==
  /\ errors' = Append(errors, entry)
  /\ success' = success
\* The entry put at the head of the list instead of its end.
RecordFailureFirst(entry) ==
  /\ errors' = <<entry>> \o errors
  /\ success' = FALSE
RecordFailure(entry) ==
  /\ errors' = Append(errors, entry)
  /\ success' = FALSE

\* An exception that no handler catches: the run ends where it is raised.
ExceptEscapes(retPc) ==
  /\ ret' = FALSE
  /\ pc' = "uncaught"
  /\ leaked' = IF ssh = "none" THEN leaked ELSE leaked + 1
  /\ ssh' = "none"

\* An exception reaching the "except Exception" of an operation: it returns
\* False to retPc without closing the session it may have opened.
Except(retPc) ==
  /\ ret' = FALSE
  /\ pc' = retPc
  /\ leaked' = IF ssh = "none" THEN leaked ELSE leaked + 1
  /\ ssh' = "none"

\* sftp.close(); ssh.close(); return value
CloseAndReturn(value, retPc) ==
  /\ ret' = value
  /\ pc' = retPc
  /\ ssh' = "none"
  /\ leaked' = leaked

\* self._connect(cluster): cluster["host"] raises KeyError when the key is
\* absent; otherwise ssh.connect is called, and fails for an empty host name
\* and for a host that is down.
ConnectOutcomes(c) ==
  IF c \notin Hosts \/ c \in down THEN {"refused"} ELSE Outcomes
_connect(okPc, retPc) ==
  IF Config_clusters[CurCluster].host = NoKey
  THEN /\ Except(retPc)
       /\ UNCHANGED <<attempted, ops, faults>>
  ELSE /\ attempted' = attempted \cup {CurCluster}
       /\ ops' = ops \cup {"connect"}
       /\ \E o \in ConnectOutcomes(CurCluster) :
            /\ faults' = IF o = "raise" THEN faults + 1 ELSE faults
            /\ IF o = "ok"
               THEN /\ ssh' = CurCluster
                    /\ pc' = okPc
                    /\ UNCHANGED <<ret, leaked>>
               ELSE Except(retPc)

(***************************************************************************)
(* KTPDeployer.deploy: the loop over the clusters.                         *)
(***************************************************************************)
deploy_begin ==
  /\ pc = "deploy"
  /\ pc' = "cluster"
  /\ UNCHANGED <<inputVars, remoteVars, ci, ki, si, pi, ti, localVars,
                 resultVars, histVars, otherVars>>

\* A cluster name the configuration does not hold is passed over silently.
deploy_cluster_silent ==
  /\ pc = "cluster"
  /\ IF ci > Len(clusters)
     THEN /\ pc' = "banner"
          /\ UNCHANGED <<ci, ki, resultVars>>
     ELSE IF CurCluster \notin DOMAIN Config_clusters
     THEN /\ ci' = ci + 1
          /\ UNCHANGED <<pc, ki, resultVars>>
     ELSE /\ pc' = IF configure_names THEN "cs_begin" ELSE "comp"
          /\ ki' = 1
          /\ UNCHANGED <<ci, resultVars>>
  /\ UNCHANGED <<inputVars, remoteVars, si, pi, ti, localVars, histVars, otherVars>>

\* for cluster_name in clusters: ... if not cluster: ... continue
deploy_cluster ==
  /\ pc = "cluster"
  /\ IF ci > Len(clusters)
     THEN /\ pc' = "banner"
          /\ UNCHANGED <<ci, ki, resultVars>>
     ELSE IF CurCluster \notin DOMAIN Config_clusters
     THEN /\ RecordFailure(Err(CurCluster, "Unknown cluster", ""))
          /\ ci' = ci + 1
          /\ UNCHANGED <<pc, ki>>
     ELSE /\ pc' = IF configure_names THEN "cs_begin" ELSE "comp"
          /\ ki' = 1
          /\ UNCHANGED <<ci, resultVars>>
  /\ UNCHANGED <<inputVars, remoteVars, si, pi, ti, localVars, histVars, otherVars>>

\* for component in components: if not self.deploy_component(...): ...
deploy_components ==
  /\ pc = "comp"
  /\ pc' = IF ki > Len(components) THEN "configs" ELSE "dc_begin"
  /\ UNCHANGED <<inputVars, remoteVars, ci, ki, si, pi, ti, localVars,
                 resultVars, histVars, otherVars>>

\* The loop over the clusters given up at the first failed component.
deploy_component_ret_abort ==
  /\ pc = "comp_ret"
  /\ IF ret THEN UNCHANGED resultVars /\ pc' = "comp"
     ELSE RecordFailure(Err(CurCluster, "Failed to deploy", CurComponent)) /\ pc' = "banner"
  /\ ki' = ki + 1
  /\ UNCHANGED <<inputVars, remoteVars, ci, si, pi, ti, localVars, histVars, otherVars>>

\* if not self.deploy_component(...): errors.append(...); success = False
deploy_component_ret ==
  /\ pc = "comp_ret"
  /\ IF ret THEN UNCHANGED resultVars
     ELSE RecordFailure(Err(CurCluster, "Failed to deploy", CurComponent))
  /\ ki' = ki + 1
  /\ pc' = "comp"
  /\ UNCHANGED <<inputVars, remoteVars, ci, si, pi, ti, localVars, histVars, otherVars>>

(***************************************************************************)
(* KTPDeployer.deploy_component                                            *)
(***************************************************************************)
\* The checks before the try block, with the dry-run branch left out.
deploy_component_no_dry_run ==
  /\ pc = "dc_begin"
  /\ IF NoHost(CurCluster) \/ component_paths(CurComponent) = <<>>
     THEN /\ ret' = FALSE
          /\ pc' = "comp_ret"
     ELSE /\ pc' = "dc_connect"
          /\ ret' = ret
  /\ xferErr' = {}
  /\ UNCHANGED <<inputVars, remoteVars, ci, ki, si, pi, ti, ssh, leaked, dcSuccess,
                 resultVars, attempted, ops, putTried, uploaded, faults, notified,
                 payload, otherVars>>

\* The checks before the try block, an empty path list taken for success.
deploy_component_empty_ok ==
  /\ pc = "dc_begin"
  /\ IF NoHost(CurCluster)
     THEN /\ ret' = FALSE
          /\ pc' = "comp_ret"
     ELSE IF component_paths(CurComponent) = <<>> \/ dry_run
     THEN /\ ret' = TRUE
          /\ pc' = "comp_ret"
     ELSE /\ pc' = "dc_connect"
          /\ ret' = ret
  /\ xferErr' = {}
  /\ UNCHANGED <<inputVars, remoteVars, ci, ki, si, pi, ti, ssh, leaked, dcSuccess,
                 resultVars, attempted, ops, putTried, uploaded, faults, notified,
                 payload, otherVars>>

\* Lines 252-267: no host -> False; no paths -> False; dry run -> True.
deploy_component ==
  /\ pc = "dc_begin"
  /\ IF NoHost(CurCluster) \/ component_paths(CurComponent) = <<>>
     THEN /\ ret' = FALSE
          /\ pc' = "comp_ret"
     ELSE IF dry_run
     THEN /\ ret' = TRUE
          /\ pc' = "comp_ret"
     ELSE /\ pc' = "dc_connect"
          /\ ret' = ret
  /\ xferErr' = {}
  /\ UNCHANGED <<inputVars, remoteVars, ci, ki, si, pi, ti, ssh, leaked, dcSuccess,
                 resultVars, attempted, ops, putTried, uploaded, faults, notified,
                 payload, otherVars>>

\* ssh = self._connect(cluster)
dc_connect ==
  /\ pc = "dc_connect"
  /\ _connect("dc_sftp", "comp_ret")
  /\ UNCHANGED <<inputVars, remoteVars, ci, ki, si, pi, ti, dcSuccess, resultVars,
                 putTried, uploaded, xferErr, notified, payload, otherVars>>

\* sftp = ssh.open_sftp(); success = True
dc_sftp ==
  /\ pc = "dc_sftp"
  /\ ops' = ops \cup {"sftp"}
  /\ \E o \in Outcomes :
       /\ Count(o)
       /\ IF o = "ok"
          THEN /\ pc' = "dc_loop"
               /\ si' = 1 /\ pi' = 1
               /\ dcSuccess' = TRUE
               /\ UNCHANGED <<ssh, leaked, ret>>
          ELSE /\ Except("comp_ret")
               /\ UNCHANGED <<si, pi, dcSuccess>>
  /\ UNCHANGED <<inputVars, remoteVars, ci, ki, ti, resultVars, attempted,
                 putTried, uploaded, xferErr, notified, payload, otherVars>>

\* The two for loops, the "source.exists()" check and the closing lines.
dc_loop ==
  /\ pc = "dc_loop"
  /\ IF si > Len(CurPorts)
     THEN /\ CloseAndReturn(dcSuccess, "comp_ret")
          /\ UNCHANGED <<si, pi, xferErr>>
     ELSE IF pi > Len(component_paths(CurComponent))
     THEN /\ si' = si + 1 /\ pi' = 1
          /\ UNCHANGED <<pc, ssh, leaked, ret, xferErr>>
     ELSE IF CurMapping.source \notin artifacts
     THEN /\ pi' = pi + 1
          /\ xferErr' = xferErr \cup {"missing"}
          /\ UNCHANGED <<pc, si, ssh, leaked, ret>>
     ELSE /\ pc' = "dc_stat"
          /\ UNCHANGED <<si, pi, ssh, leaked, ret, xferErr>>
  /\ UNCHANGED <<inputVars, remoteVars, ci, ki, ti, dcSuccess, resultVars, attempted,
                 ops, putTried, uploaded, faults, notified, payload, otherVars>>

\* try: sftp.stat(dest_dir) except FileNotFoundError: self._mkdir_p(...)
dc_stat ==
  /\ pc = "dc_stat"
  /\ ops' = ops \cup {"stat"}
  /\ \E o \in Outcomes :
       /\ Count(o)
       /\ IF o = "ok"
          THEN /\ pc' = IF Exists(fs[ssh], dirname(CurDest)) THEN "dc_bk_test"
                        ELSE "dc_mkdir"
               /\ UNCHANGED <<ssh, leaked, ret>>
          ELSE Except("comp_ret")
  /\ UNCHANGED <<inputVars, remoteVars, ci, ki, si, pi, ti, dcSuccess, resultVars,
                 attempted, putTried, uploaded, xferErr, notified, payload, otherVars>>

\* self._mkdir_p(sftp, dest_dir): it completes, or a call in it raises
\* something other than what it catches, after n directories were made.
dc_mkdir ==
  /\ pc = "dc_mkdir"
  /\ ops' = ops \cup {"mkdir"}
  /\ \E o \in Outcomes :
       /\ Count(o)
       /\ IF o = "ok"
          THEN /\ fs' = [fs EXCEPT ![ssh] = _mkdir_p(@, dirname(CurDest))]
               /\ pc' = "dc_bk_test"
               /\ UNCHANGED <<ssh, leaked, ret>>
          ELSE /\ \E n \in 0..Len(MkdirOrder(fs[ssh], dirname(CurDest))) :
                    fs' = [fs EXCEPT ![ssh] =
                             MkdirAll(@, MkdirOrder(@, dirname(CurDest)), n)]
               /\ Except("comp_ret")
  /\ UNCHANGED <<inputVars, baks, cpJobs, now, ci, ki, si, pi, ti, dcSuccess,
                 resultVars, attempted, putTried, uploaded, xferErr, notified, payload, otherVars>>

(***************************************************************************)
(* KTPDeployer._backup_file_via_ssh, called from deploy_component          *)
(***************************************************************************)
\* An exception in the backup that is not caught there reaches the handler
\* of deploy_component.
BackupRaisedPropagates ==
  Except("comp_ret")
\* except Exception: pass  -- the backup returns and the upload follows.
BackupRaised ==
  /\ pc' = "dc_put"
  /\ UNCHANGED <<ssh, leaked, ret>>

\* ssh.exec_command("test -f dest && echo exists"); stdout.read()
dc_bk_test ==
  /\ pc = "dc_bk_test"
  /\ ops' = ops \cup {"exec"}
  /\ \E o \in Outcomes :
       /\ Count(o)
       /\ IF o = "ok"
          THEN /\ pc' = IF IsFile(fs[ssh], CurDest) THEN "dc_bk_mkdir" ELSE "dc_put"
               /\ UNCHANGED <<ssh, leaked, ret>>
          ELSE BackupRaised
  /\ UNCHANGED <<inputVars, remoteVars, ci, ki, si, pi, ti, dcSuccess, resultVars,
                 attempted, putTried, uploaded, xferErr, notified, payload, otherVars>>

\* ssh.exec_command(f"mkdir -p {backup_dir}")
dc_bk_mkdir ==
  /\ pc = "dc_bk_mkdir"
  /\ ops' = ops \cup {"exec"}
  /\ \E o \in Outcomes :
       /\ Count(o)
       /\ IF o = "ok"
          THEN /\ fs' = [fs EXCEPT ![ssh] = ShellMkdirP(@, backup_dir)]
               /\ pc' = "dc_bk_cp"
               /\ UNCHANGED <<ssh, leaked, ret>>
          ELSE /\ BackupRaised
               /\ fs' = fs
  /\ UNCHANGED <<inputVars, baks, cpJobs, now, ci, ki, si, pi, ti, dcSuccess,
                 resultVars, attempted, putTried, uploaded, xferErr, notified, payload, otherVars>>

\* The name of a backup: f"{filename}.{timestamp}.bak" in backup_dir, the
\* timestamp having a granularity of one second.
BackupName(remote_path, timestamp) == <<basename(remote_path), timestamp>>

\* The remote host runs a started "cp src backup_dir/name.timestamp.bak":
\* it copies what src holds at that moment, replacing a backup of that name;
\* the copy fails when src or the backup directory is not there.
CpDone(b, f, h, job) ==
  IF IsFile(f[h], job.src) /\ IsDir(f[h], backup_dir)
  THEN [b EXCEPT ![h] = (job.bak :> f[h][job.src].data) @@ @]
  ELSE b

\* timestamp = now().strftime(...); ssh.exec_command(f"cp {dest} {backup}").
\* exec_command returns once the command is started, not when it has ended:
\* the copy is done by the remote host, usually at once ("ok"), but it may
\* still be running when deploy_component goes on ("late", counted as a
\* fault; RemoteCp ends it).  One late copy is kept at a time.
CpOutcomes == IF CanFault THEN {"ok", "late", "raise"} ELSE {"ok"}
dc_bk_cp ==
  /\ pc = "dc_bk_cp"
  /\ cpJobs = {}
  /\ ops' = ops \cup {"exec"}
  /\ \E t \in {now, now + 1} \cap (0..MaxTime), o \in CpOutcomes :
       LET job == [host |-> ssh, src |-> CurDest, bak |-> BackupName(CurDest, t)] IN
       /\ now' = t
       /\ Count(o)
       /\ IF o = "raise"
          THEN /\ BackupRaised
               /\ UNCHANGED <<cpJobs, baks>>
          ELSE /\ pc' = "dc_put"
               /\ UNCHANGED <<ssh, leaked, ret>>
               /\ IF o = "ok"
                  THEN baks' = CpDone(baks, fs, ssh, job) /\ cpJobs' = cpJobs
                  ELSE baks' = baks /\ cpJobs' = {job}
  /\ UNCHANGED <<inputVars, fs, ci, ki, si, pi, ti, dcSuccess, resultVars,
                 attempted, putTried, uploaded, xferErr, notified, payload, otherVars>>

\* A copy that was still running ends.
RemoteCp ==
  \E job \in cpJobs :
    /\ cpJobs' = cpJobs \ {job}
    /\ baks' = CpDone(baks, fs, job.host, job)
    /\ UNCHANGED <<inputVars, fs, now, ctlVars, localVars, resultVars, histVars, otherVars>>

(***************************************************************************)
(* deploy_component: the upload and the permissions.                       *)
(***************************************************************************)
\* The except clause of the upload with "success = False" left out.
UploadFailedKeepsSuccess ==
  /\ dcSuccess' = dcSuccess
  /\ pi' = pi + 1
  /\ pc' = "dc_loop"
\* The except clause of the upload going back to the same mapping.
UploadFailedRetry ==
  /\ dcSuccess' = FALSE
  /\ pi' = pi
  /\ pc' = "dc_loop"
\* except Exception as e: print(...); success = False
UploadFailed ==
  /\ dcSuccess' = FALSE
  /\ pi' = pi + 1
  /\ pc' = "dc_loop"

\* The remote side accepts a write to dest: dest is a file, or it is absent
\* and its directory lets it be created.
Writable(f, dest) == IsFile(f, dest) \/ (~Exists(f, dest) /\ PermitsCreate(f, dirname(dest)))

\* sftp.put(source, dest): dest gets the artifact's content; an existing
\* file keeps its mode.  A failing put leaves dest as it was or half-written.
PutOutcomes ==
  (IF Writable(fs[ssh], CurDest) THEN {"ok"} ELSE {"refused"})
    \cup (IF CanFault THEN {"raise"} ELSE {})
    \cup (IF CanFault /\ Writable(fs[ssh], CurDest) THEN {"torn"} ELSE {})
PutMode(f, dest) == IF IsFile(f, dest) THEN f[dest].mode ELSE "644"
dc_put ==
  /\ pc = "dc_put"
  /\ ops' = ops \cup {"put"}
  /\ putTried' = putTried \cup {CurFile}
  /\ \E o \in PutOutcomes :
       /\ faults' = IF o \in {"raise", "torn"} THEN faults + 1 ELSE faults
       /\ IF o = "ok"
          THEN /\ fs' = [fs EXCEPT ![ssh] = WithNode(@, CurDest,
                            FileNode(NewData(CurMapping.source),
                                     PutMode(@, CurDest), <<>>))]
               /\ uploaded' = uploaded \cup {CurFile}
               /\ IF CurMapping.chmod # ""
                  THEN pc' = "dc_chmod" /\ pi' = pi
                  ELSE pc' = "dc_loop" /\ pi' = pi + 1
               /\ UNCHANGED <<dcSuccess, xferErr>>
          ELSE /\ fs' = IF o = "torn"
                        THEN [fs EXCEPT ![ssh] = WithNode(@, CurDest,
                                 FileNode(TornData(CurMapping.source),
                                          PutMode(@, CurDest), <<>>))]
                        ELSE fs
               /\ UploadFailed
               /\ xferErr' = xferErr \cup {"put"}
               /\ uploaded' = uploaded
  /\ UNCHANGED <<inputVars, baks, cpJobs, now, ci, ki, si, ti, ssh, leaked, ret,
                 resultVars, attempted, notified, payload, otherVars>>

\* sftp.chmod(dest, int(path_config["chmod"], 8)), inside the same try.
dc_chmod ==
  /\ pc = "dc_chmod"
  /\ ops' = ops \cup {"chmod"}
  /\ \E o \in Outcomes :
       /\ Count(o)
       /\ IF o = "ok"
          THEN /\ fs' = [fs EXCEPT ![ssh][CurDest].mode = CurMapping.chmod]
               /\ pi' = pi + 1
               /\ pc' = "dc_loop"
               /\ UNCHANGED <<dcSuccess, xferErr>>
          ELSE /\ UploadFailed
               /\ xferErr' = xferErr \cup {"chmod"}
               /\ fs' = fs
  /\ UNCHANGED <<inputVars, baks, cpJobs, now, ci, ki, si, ti, ssh, leaked, ret,
                 resultVars, attempted, putTried, uploaded, notified, payload, otherVars>>

(***************************************************************************)
(* KTPDeployer.configure_server_names                                      *)
(***************************************************************************)
\* The name numbered from 0.
server_name_from_zero(c, i) == <<c, i - 1>>
\* f"{server_name_prefix} #{i}": the prefix is the cluster's, i the 1-based
\* index of the port.
server_name(c, i) == <<c, i>>
ServerNameLine(c, i) == [key |-> "servername", val |-> server_name(c, i)]

\* The servername line added at the end whether or not the file has one.
PatchLinesAppend(lines, c, i) == Append(lines, ServerNameLine(c, i))
\* grep -q '^servername=' f && sed -i 's/^servername=.*/servername="X"/' f
\*   || echo 'servername="X"' >> f
PatchLines(lines, c, i) ==
  IF \E n \in DOMAIN lines : lines[n].key = "servername"
  THEN [n \in DOMAIN lines |->
          IF lines[n].key = "servername" THEN ServerNameLine(c, i) ELSE lines[n]]
  ELSE Append(lines, ServerNameLine(c, i))

\* The content written for a config file that does not exist (lines 401-409).
NewCfgLines(c, port, i) ==
  << [key |-> "port", val |-> <<"", port>>],
     [key |-> "clientport", val |-> <<"", port - 10>>],
     ServerNameLine(c, i) >>

CurCfgFile == lgsm_config_file(CurPort, si)

\* Lines 362-373: the dry-run branch; there is no check of the host.
configure_server_names ==
  /\ pc = "cs_begin"
  /\ IF dry_run
     THEN ret' = TRUE /\ pc' = "names_ret"
     ELSE ret' = ret /\ pc' = "cs_connect"
  /\ UNCHANGED <<inputVars, remoteVars, ci, ki, si, pi, ti, ssh, leaked, dcSuccess,
                 resultVars, histVars, otherVars>>

cs_connect ==
  /\ pc = "cs_connect"
  /\ _connect("cs_mkdir", "names_ret")
  /\ si' = 1
  /\ UNCHANGED <<inputVars, remoteVars, ci, ki, pi, ti, dcSuccess, resultVars,
                 putTried, uploaded, xferErr, notified, payload, otherVars>>

\* for i, port in enumerate(ports, 1): ssh.exec_command(f"mkdir -p {config_dir}")
\* and, after the last port, ssh.close(); return True
cs_mkdir ==
  /\ pc = "cs_mkdir"
  /\ IF si > Len(CurPorts)
     THEN /\ CloseAndReturn(TRUE, "names_ret")
          /\ UNCHANGED <<fs, ops, faults>>
     ELSE /\ ops' = ops \cup {"exec"}
          /\ \E o \in Outcomes :
               /\ Count(o)
               /\ IF o = "ok"
                  THEN /\ fs' = [fs EXCEPT ![ssh] = ShellMkdirP(@, lgsm_config_dir(CurPort))]
                       /\ pc' = "cs_test"
                       /\ UNCHANGED <<ssh, leaked, ret>>
                  ELSE /\ Except("names_ret")
                       /\ fs' = fs
  /\ UNCHANGED <<inputVars, baks, cpJobs, now, ci, ki, si, pi, ti, dcSuccess,
                 resultVars, attempted, putTried, uploaded, xferErr, notified,
                 payload, otherVars>>

\* ssh.exec_command(f"test -f {config_file} && echo exists"); stdout.read()
cs_test ==
  /\ pc = "cs_test"
  /\ ops' = ops \cup {"exec"}
  /\ \E o \in Outcomes :
       /\ Count(o)
       /\ IF o = "ok"
          THEN /\ pc' = IF IsFile(fs[ssh], CurCfgFile) THEN "cs_update" ELSE "cs_create"
               /\ UNCHANGED <<ssh, leaked, ret>>
          ELSE Except("names_ret")
  /\ UNCHANGED <<inputVars, remoteVars, ci, ki, si, pi, ti, dcSuccess, resultVars,
                 attempted, putTried, uploaded, xferErr, notified, payload, otherVars>>

\* if exists: the grep/sed/echo command line
cs_update ==
  /\ pc = "cs_update"
  /\ ops' = ops \cup {"exec"}
  /\ \E o \in Outcomes :
       /\ Count(o)
       /\ IF o = "ok"
          THEN /\ fs' = [fs EXCEPT ![ssh][CurCfgFile].lines =
                           PatchLines(@, CurCluster, si)]
               /\ si' = si + 1
               /\ pc' = "cs_mkdir"
               /\ UNCHANGED <<ssh, leaked, ret>>
          ELSE /\ Except("names_ret")
               /\ UNCHANGED <<fs, si>>
  /\ UNCHANGED <<inputVars, baks, cpJobs, now, ci, ki, pi, ti, dcSuccess,
                 resultVars, attempted, putTried, uploaded, xferErr, notified,
                 payload, otherVars>>

\* else: ssh.exec_command(f"cat > {config_file} << 'EOFCFG' ...")
cs_create ==
  /\ pc = "cs_create"
  /\ ops' = ops \cup {"exec"}
  /\ \E o \in Outcomes :
       /\ Count(o)
       /\ IF o = "ok"
          THEN /\ fs' = IF Writable(fs[ssh], CurCfgFile)
                        THEN [fs EXCEPT ![ssh] = WithNode(@, CurCfgFile,
                                 FileNode([tag |-> "cfg", of |-> CurCfgFile], "644",
                                          NewCfgLines(CurCluster, CurPort, si)))]
                        ELSE fs
               /\ si' = si + 1
               /\ pc' = "cs_mkdir"
               /\ UNCHANGED <<ssh, leaked, ret>>
          ELSE /\ Except("names_ret")
               /\ UNCHANGED <<fs, si>>
  /\ UNCHANGED <<inputVars, baks, cpJobs, now, ci, ki, pi, ti, dcSuccess,
                 resultVars, attempted, putTried, uploaded, xferErr, notified,
                 payload, otherVars>>

\* A failed name configuration taken as the end of the work on the cluster.
configure_names_ret_skip ==
  /\ pc = "names_ret"
  /\ IF ret
     THEN /\ pc' = "comp"
          /\ ki' = 1
          /\ UNCHANGED <<ci, resultVars>>
     ELSE /\ RecordFailure(Err(CurCluster, "Failed to configure server names", ""))
          /\ pc' = "cluster"
          /\ ci' = ci + 1
          /\ ki' = ki
  /\ UNCHANGED <<inputVars, remoteVars, si, pi, ti, localVars, histVars, otherVars>>

\* if not self.configure_server_names(...): errors.append(...); success = False
configure_names_ret ==
  /\ pc = "names_ret"
  /\ IF ret THEN UNCHANGED resultVars
     ELSE RecordFailure(Err(CurCluster, "Failed to configure server names", ""))
  /\ pc' = "comp"
  /\ ki' = 1
  /\ UNCHANGED <<inputVars, remoteVars, ci, si, pi, ti, localVars, histVars, otherVars>>

(***************************************************************************)
(* KTPDeployer.deploy_configs                                              *)
(***************************************************************************)
\* if deploy_configs: if not self.deploy_configs(...): ...   (deploy)
deploy_configs_step ==
  /\ pc = "configs"
  /\ IF deploy_configs_flag
     THEN pc' = "cf_begin" /\ ci' = ci
     ELSE pc' = "cluster" /\ ci' = ci + 1
  /\ UNCHANGED <<inputVars, remoteVars, ki, si, pi, ti, localVars, resultVars,
                 histVars, otherVars>>

\* Lines 429-438: no template environment -> True; dry run -> True; there
\* is no check of the host.
deploy_configs ==
  /\ pc = "cf_begin"
  /\ IF ~hasTemplates \/ dry_run
     THEN ret' = TRUE /\ pc' = "configs_ret"
     ELSE ret' = ret /\ pc' = "cf_connect"
  /\ UNCHANGED <<inputVars, remoteVars, ci, ki, si, pi, ti, ssh, leaked, dcSuccess,
                 resultVars, histVars, otherVars>>

cf_connect ==
  /\ pc = "cf_connect"
  /\ _connect("cf_sftp", "configs_ret")
  /\ UNCHANGED <<inputVars, remoteVars, ci, ki, si, pi, ti, dcSuccess, resultVars,
                 putTried, uploaded, xferErr, notified, payload, otherVars>>

cf_sftp ==
  /\ pc = "cf_sftp"
  /\ ops' = ops \cup {"sftp"}
  /\ \E o \in Outcomes :
       /\ Count(o)
       /\ IF o = "ok"
          THEN /\ pc' = "cf_mkdir"
               /\ si' = 1
               /\ UNCHANGED <<ssh, leaked, ret>>
          ELSE /\ Except("configs_ret")
               /\ si' = si
  /\ UNCHANGED <<inputVars, remoteVars, ci, ki, pi, ti, dcSuccess, resultVars,
                 attempted, putTried, uploaded, xferErr, notified, payload, otherVars>>

\* for server_dir in server_dirs: self._mkdir_p(sftp, config_dir)
\* and, after the last one, sftp.close(); ssh.close(); return True
cf_mkdir ==
  /\ pc = "cf_mkdir"
  /\ IF si > Len(CurPorts)
     THEN /\ CloseAndReturn(TRUE, "configs_ret")
          /\ UNCHANGED <<fs, ops, faults, ti>>
     ELSE /\ ops' = ops \cup {"stat", "mkdir"}
          /\ \E o \in Outcomes :
               /\ Count(o)
               /\ IF o = "ok"
                  THEN /\ fs' = [fs EXCEPT ![ssh] =
                                   _mkdir_p(@, tmpl_config_dir(server_dir(CurPort)))]
                       /\ pc' = "cf_tmpl"
                       /\ ti' = 1
                       /\ UNCHANGED <<ssh, leaked, ret>>
                  ELSE /\ \E n \in 0..Len(MkdirOrder(fs[ssh],
                                              tmpl_config_dir(server_dir(CurPort)))) :
                            fs' = [fs EXCEPT ![ssh] = MkdirAll(@,
                                     MkdirOrder(@, tmpl_config_dir(server_dir(CurPort))), n)]
                       /\ Except("configs_ret")
                       /\ ti' = ti
  /\ UNCHANGED <<inputVars, baks, cpJobs, now, ci, ki, si, pi, dcSuccess,
                 resultVars, attempted, putTried, uploaded, xferErr, notified,
                 payload, otherVars>>

CurTemplate == list_templates[ti]
CurRendered == tmpl_config_dir(server_dir(CurPort)) \o <<dest_name(CurTemplate)>>

\* for template_name in list_templates(): if not .j2: continue;
\* template = get_template(...); rendered = template.render(...)
cf_tmpl ==
  /\ pc = "cf_tmpl"
  /\ IF ti > Len(list_templates)
     THEN /\ si' = si + 1
          /\ pc' = "cf_mkdir"
          /\ UNCHANGED <<ti, ssh, leaked, ret, faults>>
     ELSE IF ~IsTemplate(CurTemplate)
     THEN /\ ti' = ti + 1
          /\ UNCHANGED <<pc, si, ssh, leaked, ret, faults>>
     ELSE /\ \E o \in Outcomes :
               /\ Count(o)
               /\ IF o = "ok"
                  THEN /\ pc' = "cf_write"
                       /\ UNCHANGED <<ssh, leaked, ret>>
                  ELSE Except("configs_ret")
          /\ UNCHANGED <<si, ti>>
  /\ UNCHANGED <<inputVars, remoteVars, ci, ki, pi, dcSuccess, resultVars,
                 attempted, ops, putTried, uploaded, xferErr, notified, payload,
                 otherVars>>

\* with sftp.open(dest_path, "w") as f: f.write(rendered)
WriteOutcomes ==
  (IF Writable(fs[ssh], CurRendered) THEN {"ok"} ELSE {"refused"})
    \cup (IF CanFault THEN {"raise"} ELSE {})
cf_write ==
  /\ pc = "cf_write"
  /\ ops' = ops \cup {"write"}
  /\ \E o \in WriteOutcomes :
       /\ faults' = IF o = "raise" THEN faults + 1 ELSE faults
       /\ IF o = "ok"
          THEN /\ fs' = [fs EXCEPT ![ssh] = WithNode(@, CurRendered,
                            FileNode([tag |-> "rendered", of |-> CurRendered],
                                     PutMode(@, CurRendered), <<>>))]
               /\ ti' = ti + 1
               /\ pc' = "cf_tmpl"
               /\ UNCHANGED <<ssh, leaked, ret>>
          ELSE /\ Except("configs_ret")
               /\ UNCHANGED <<fs, ti>>
  /\ UNCHANGED <<inputVars, baks, cpJobs, now, ci, ki, si, pi, dcSuccess,
                 resultVars, attempted, putTried, uploaded, xferErr, notified,
                 payload, otherVars>>

deploy_configs_ret ==
  /\ pc = "configs_ret"
  /\ IF ret THEN UNCHANGED resultVars
     ELSE RecordFailure(Err(CurCluster, "Failed to deploy configs", ""))
  /\ ci' = ci + 1
  /\ pc' = "cluster"
  /\ UNCHANGED <<inputVars, remoteVars, ki, si, pi, ti, localVars, histVars, otherVars>>

(***************************************************************************)
(* The end of deploy and KTPDeployer.send_discord_notification             *)
(***************************************************************************)
\* if notify_discord and not dry_run: self.send_discord_notification(...)
deploy_finish ==
  /\ pc = "banner"
  /\ pc' = IF notify_discord /\ ~dry_run THEN "nt_send" ELSE "done"
  /\ UNCHANGED <<inputVars, remoteVars, ci, ki, si, pi, ti, localVars, resultVars,
                 histVars, otherVars>>

\* errors[:5] and len(errors) - 5 (lines 145-148)
ErrorLimit == 5
\* The list shown whole.
ShownAll(es) == es
Shown(es) == SubSeq(es, 1, IF Len(es) < ErrorLimit THEN Len(es) ELSE ErrorLimit)
More(es) == IF Len(es) > ErrorLimit THEN Len(es) - ErrorLimit ELSE 0

\* What the post to the relay can come to: no post because the relay is not
\* configured, status 200, another status, an exception.
PostOutcomes == {"skipped", "200", "other", "raise"}
\* The errors argument is None on success; the "Errors" field is added for
\* a list that is not empty ("if errors:").
NotifyPayload ==
  [sent |-> TRUE, ok |-> success,
   field |-> ~success /\ errors # <<>>,
   shown |-> IF success THEN <<>> ELSE Shown(errors),
   more |-> IF success THEN 0 ELSE More(errors)]

\* The notification with a failed post taken for a failure of the deployment.
send_discord_notification_fatal ==
  /\ pc = "nt_send"
  /\ \E o \in PostOutcomes :
       /\ ret' = (o = "200")
       /\ IF o = "skipped"
          THEN UNCHANGED <<ops, notified, payload>>
          ELSE /\ ops' = ops \cup {"post"}
               /\ notified' = notified + 1
               /\ payload' = NotifyPayload
       /\ IF o \in {"other", "raise"}
          THEN RecordFailure(Err("", "Notification failed", ""))
          ELSE UNCHANGED resultVars
  /\ pc' = "done"
  /\ UNCHANGED <<inputVars, remoteVars, ci, ki, si, pi, ti, ssh, leaked, dcSuccess,
                 attempted, putTried, uploaded, xferErr, faults, otherVars>>

\* send_discord_notification(success, clusters, components,
\*                           errors if not success else None):
\* returns False without a post when the relay is not configured; otherwise
\* the payload is posted and the function returns True for status 200 and
\* False for another status or an exception.  deploy discards the value.
send_discord_notification ==
  /\ pc = "nt_send"
  /\ \E o \in PostOutcomes :
       /\ ret' = (o = "200")
       /\ IF o = "skipped"
          THEN UNCHANGED <<ops, notified, payload>>
          ELSE /\ ops' = ops \cup {"post"}
               /\ notified' = notified + 1
               /\ payload' = NotifyPayload
  /\ pc' = "done"
  /\ UNCHANGED <<inputVars, remoteVars, ci, ki, si, pi, ti, ssh, leaked, dcSuccess,
                 resultVars, attempted, putTried, uploaded, xferErr, faults, otherVars>>

\* sys.exit(0 if success else 1)   (main)
exit_code == IF success THEN 0 ELSE 1

\* A step of deploy itself.
DeployStep ==
  \/ deploy_begin
  \/ deploy_cluster
  \/ configure_server_names
  \/ cs_connect
  \/ cs_mkdir
  \/ cs_test
  \/ cs_update
  \/ cs_create
  \/ configure_names_ret
  \/ deploy_components
  \/ deploy_component
  \/ dc_connect
  \/ dc_sftp
  \/ dc_loop
  \/ dc_stat
  \/ dc_mkdir
  \/ dc_bk_test
  \/ dc_bk_mkdir
  \/ dc_bk_cp
  \/ dc_put
  \/ dc_chmod
  \/ deploy_component_ret
  \/ deploy_configs_step
  \/ deploy_configs
  \/ cf_connect
  \/ cf_sftp
  \/ cf_mkdir
  \/ cf_tmpl
  \/ cf_write
  \/ deploy_configs_ret
  \/ deploy_finish
  \/ send_discord_notification

\* deploy, and the remote hosts ending the copies it started.
Next ==
  \/ DeployStep
  \/ RemoteCp

Spec == Init /\ [][Next]_vars

(***************************************************************************)
(* _mkdir_p on its own: any tree, any target, called twice.                *)
(***************************************************************************)
\* The targets: absolute paths of up to MaxDepth segments.
Names == {"a", "b"}
TargetPaths == UNION {[1..n -> Names] : n \in 1..MaxDepth}

\* The part of a remote tree _mkdir_p(p) can see: the first k prefixes of p
\* exist, the deepest as node top and those above it as directories.
TreeOn(p, k, top) ==
  [q \in {SubSeq(p, 1, n) : n \in 0..k} |-> IF Len(q) = k THEN top ELSE DirNode]
TopNodes(p, k) ==
  {DirNode, RoDirNode} \cup
    (IF k > 0 THEN {FileNode(OldData(SubSeq(p, 1, k)), "644", <<>>)} ELSE {})
ChainTrees(p) == {TreeOn(p, k, top) : <<k, top>> \in
                    UNION {{<<j, t>> : t \in TopNodes(p, j)} : j \in 0..Len(p)}}
\* The same trees, alone or next to a directory that is not on the way to p.
Trees(p) == ChainTrees(p) \cup {WithNode(t, <<"srv">>, DirNode) : t \in ChainTrees(p)}

InitMkdir ==
  /\ target \in TargetPaths
  /\ tree \in Trees(target)
  /\ mkCalls = 0 /\ mkIssued = <<>> /\ treeBefore = tree
  /\ clusters = <<>> /\ components = <<>>
  /\ dry_run = FALSE /\ deploy_configs_flag = FALSE /\ configure_names = FALSE
  /\ notify_discord = FALSE /\ hasTemplates = TRUE /\ artifacts = Sources
  /\ layout = [c \in Hosts |-> "fresh"] /\ down = {}
  /\ fs = [c \in Hosts |-> LayoutFs(c, "fresh")]
  /\ baks = [c \in Hosts |-> <<>>] /\ cpJobs = {} /\ now = 0
  /\ pc = "_mkdir_p" /\ ci = 1 /\ ki = 1 /\ si = 1 /\ pi = 1 /\ ti = 1
  /\ ssh = "none" /\ leaked = 0 /\ dcSuccess = TRUE /\ ret = TRUE
  /\ success = TRUE /\ errors = <<>>
  /\ attempted = {} /\ ops = {} /\ putTried = {} /\ uploaded = {}
  /\ xferErr = {} /\ faults = 0 /\ notified = 0 /\ payload = NoPayload
  /\ run = 1 /\ first = NoFirst
  /\ cfgBefore = <<>>
  /\ RelayIdle

\* self._mkdir_p(sftp, target): the sftp.mkdir calls it issues and the tree
\* it leaves.
call_mkdir_p ==
  /\ pc = "_mkdir_p"
  /\ mkCalls < 2
  /\ mkCalls' = mkCalls + 1
  /\ treeBefore' = tree
  /\ mkIssued' = MkdirOrder(tree, target)
  /\ tree' = _mkdir_p(tree, target)
  /\ UNCHANGED <<target, inputVars, remoteVars, ctlVars, localVars, resultVars,
                 histVars, rerunVars, namesVars, relayVars>>

NextMkdir == call_mkdir_p

SpecMkdir == InitMkdir /\ [][NextMkdir]_vars

(***************************************************************************)
(* The same invocation run twice, with no remote failure.                  *)
(***************************************************************************)
\* The invocations of Init that are real runs with every host reachable;
\* no remote call fails (the budget of faults is spent).
InitRerun ==
  /\ \E inv \in Invocations :
       /\ clusters = inv.clusters
       /\ components = inv.components
  /\ dry_run = FALSE
  /\ deploy_configs_flag \in BOOLEAN
  /\ configure_names \in BOOLEAN
  /\ notify_discord \in BOOLEAN
  /\ hasTemplates = TRUE
  /\ artifacts \in {Sources} \cup
       (IF "engine" \in SeqRange(components) THEN {Sources \ {"engine_i486.so"}} ELSE {})
  /\ \E l \in Layouts : layout = [c \in Hosts |-> l]
  /\ down = {}
  /\ \/ Features(configure_names, deploy_configs_flag, notify_discord) <= 1
     \/ /\ configure_names /\ deploy_configs_flag /\ ~notify_discord
        /\ Len(clusters) = 1 /\ Len(components) = 1
  /\ fs = [c \in Hosts |-> LayoutFs(c, layout[c])]
  /\ baks = [c \in Hosts |-> <<>>]
  /\ cpJobs = {}
  /\ now = 0
  /\ pc = "deploy" /\ ci = 1 /\ ki = 1 /\ si = 1 /\ pi = 1 /\ ti = 1
  /\ ssh = "none" /\ leaked = 0 /\ dcSuccess = TRUE /\ ret = TRUE
  /\ success = TRUE /\ errors = <<>>
  /\ attempted = {} /\ ops = {} /\ putTried = {} /\ uploaded = {}
  /\ xferErr = {} /\ faults = MaxFaults /\ notified = 0 /\ payload = NoPayload
  /\ tree = NoTree /\ target = <<>> /\ mkCalls = 0 /\ mkIssued = <<>>
  /\ treeBefore = NoTree
  /\ run = 1 /\ first = NoFirst
  /\ cfgBefore = <<>>
  /\ RelayIdle

\* main is run again with the same arguments, configuration and artifacts:
\* a new KTPDeployer and a new call of deploy, against the remote hosts as
\* the first run left them.
rerun ==
  /\ pc = "done"
  /\ run = 1
  /\ run' = 2
  /\ first' = [fs |-> fs, success |-> success, errors |-> errors]
  /\ pc' = "deploy" /\ ci' = 1 /\ ki' = 1 /\ si' = 1 /\ pi' = 1 /\ ti' = 1
  /\ ssh' = "none" /\ leaked' = 0 /\ dcSuccess' = TRUE /\ ret' = TRUE
  /\ success' = TRUE /\ errors' = <<>>
  /\ attempted' = {} /\ ops' = {} /\ putTried' = {} /\ uploaded' = {}
  /\ xferErr' = {} /\ notified' = 0 /\ payload' = NoPayload
  /\ UNCHANGED <<inputVars, remoteVars, faults, mkVars, namesVars, relayVars>>

NextRerun ==
  \/ DeployStep
  \/ rerun

SpecRerun == InitRerun /\ [][NextRerun]_vars

(***************************************************************************)
(* configure_server_names on its own: one cluster, any instance configs.   *)
(***************************************************************************)
\* A line of an instance config as found on the host.
OldLine(k, v) == [key |-> k, val |-> <<"old", v>>]
\* What an instance config can hold before the step: nothing, lines without
\* a servername, one servername line among others, two servername lines.
CfgContents ==
  { <<>>,
    <<OldLine("port", 0), OldLine("maxplayers", 0)>>,
    <<OldLine("port", 0), OldLine("servername", 1), OldLine("maxplayers", 0)>>,
    <<OldLine("servername", 1), OldLine("port", 0), OldLine("servername", 2)>> }
\* An instance config before the step: absent, or a file with its lines.
CfgStates ==
  {[present |-> FALSE, lines |-> <<>>]} \cup
    {[present |-> TRUE, lines |-> l] : l \in CfgContents}

\* The file system of host c with the instance configs as in before.
NamesFs(c, before) ==
  LET ports == Config_clusters[c].ports
      cfgs  == {lgsm_config_file(ports[i], i) : i \in {j \in DOMAIN ports : before[j].present}}
      base  == LayoutFs(c, "fresh")
      dirs  == UNION {Prefixes(dirname(f)) : f \in cfgs}
  IN [p \in DOMAIN base \cup dirs \cup cfgs |->
        IF p \in cfgs
        THEN LET i == CHOOSE j \in DOMAIN ports : lgsm_config_file(ports[j], j) = p
             IN FileNode(OldData(p), "644", before[i].lines)
        ELSE IF p \in DOMAIN base THEN base[p] ELSE DirNode]

\* The call configure_server_names(c, cluster, dry_run=False) of a real run,
\* for a cluster that is reached and with no remote call failing.
InitNames ==
  /\ \E c \in {"atl", "den"} :
       /\ clusters = <<c>>
       /\ cfgBefore \in [DOMAIN Config_clusters[c].ports -> CfgStates]
       /\ fs = [h \in Hosts |-> IF h = c THEN NamesFs(c, cfgBefore)
                                         ELSE LayoutFs(h, "fresh")]
  /\ components = <<>>
  /\ dry_run = FALSE /\ deploy_configs_flag = FALSE /\ configure_names = TRUE
  /\ notify_discord = FALSE /\ hasTemplates = TRUE /\ artifacts = Sources
  /\ layout = [h \in Hosts |-> "fresh"] /\ down = {}
  /\ baks = [h \in Hosts |-> <<>>] /\ cpJobs = {} /\ now = 0
  /\ pc = "cs_begin" /\ ci = 1 /\ ki = 1 /\ si = 1 /\ pi = 1 /\ ti = 1
  /\ ssh = "none" /\ leaked = 0 /\ dcSuccess = TRUE /\ ret = TRUE
  /\ success = TRUE /\ errors = <<>>
  /\ attempted = {} /\ ops = {} /\ putTried = {} /\ uploaded = {}
  /\ xferErr = {} /\ faults = MaxFaults /\ notified = 0 /\ payload = NoPayload
  /\ tree = NoTree /\ target = <<>> /\ mkCalls = 0 /\ mkIssued = <<>>
  /\ treeBefore = NoTree
  /\ run = 1 /\ first = NoFirst
  /\ RelayIdle

NextNames ==
  \/ configure_server_names
  \/ cs_connect
  \/ cs_mkdir
  \/ cs_test
  \/ cs_update
  \/ cs_create

SpecNames == InitNames /\ [][NextNames]_vars

(***************************************************************************)
(* The command relay (hltv-api.py): one request through HLTVHandler.       *)
(***************************************************************************)
AUTH_KEY == "KTPVPS2026"
\* range(27020, 27045): the upper end is excluded.
VALID_PORTS == 27020..(27045 - 1)
\* A header the request does not carry.
NoHeader == "<absent>"
\* self.headers.get(name, default)
HeaderGet(h, default) == IF h = NoHeader THEN default ELSE h
\* int(text) on the texts the requests use; a text outside the domain makes
\* int raise ValueError.  int accepts a sign, as in "+27020".
PyInt ==
  ("0" :> 0) @@ ("7" :> 7) @@ ("27019" :> 27019) @@ ("27020" :> 27020) @@
  ("+27020" :> 27020) @@ ("27044" :> 27044) @@ ("27045" :> 27045)
\* A path is the sequence of its pieces between the "/" characters, so
\* "/hltv/27020/command" is <<"", "hltv", "27020", "command">>.
RECURSIVE LStrip(_)
LStrip(p) == IF p # <<>> /\ Head(p) = "" THEN LStrip(Tail(p)) ELSE p
RECURSIVE RStrip(_)
RStrip(p) ==
  IF p # <<>> /\ p[Len(p)] = "" THEN RStrip(SubSeq(p, 1, Len(p) - 1)) ELSE p
\* self.path.strip("/").split("/"): the slashes at both ends are dropped
\* before the split (an empty rest splits into one empty piece).
PathParts(p) ==
  LET rest == RStrip(LStrip(p)) IN IF rest = <<>> THEN <<"">> ELSE rest
\* The paths of the requests.
RequestPaths ==
  { <<"", "hltv", "27020", "command">>, <<"", "hltv", "27044", "command">>,
    <<"", "hltv", "27020", "restart">>, <<"", "hltv", "27044", "restart">>,
    <<"", "hltv", "27019", "restart">>, <<"", "hltv", "27045", "command">>,
    <<"", "hltv", "abc", "command">>,   <<"", "hltv", "", "command">>,
    <<"", "hltv", "27020", "status">>,  <<"", "hltv", "27020">>,
    <<"", "api", "27020", "command">>,  <<"", "hltv", "+27020", "restart">>,
    <<"", "", "hltv", "27020", "command", "">>,
    <<"", "health">>, <<"">> }
\* The body of a request as handle_command sees it: whether its bytes decode
\* as UTF-8, what json.loads makes of the text ("invalid" raises
\* JSONDecodeError, "other" is a JSON value that is no object), what the
\* object holds under "command", and the text left after strip(): of the
\* command string of an object, of the whole body when it is no JSON.
Body(utf8, json, field, text) ==
  [utf8 |-> utf8, json |-> json, field |-> field, text |-> text]
RequestBodies ==
  { Body(TRUE, "object", "string", "status"),   \* {"command": " status "}
    Body(TRUE, "object", "string", ""),         \* {"command": "  "}
    Body(TRUE, "object", "absent", ""),         \* {}
    Body(TRUE, "object", "number", ""),         \* {"command": 5}
    Body(TRUE, "other", "absent", ""),          \* ["status"], 5, "status"
    Body(TRUE, "invalid", "absent", "stop"),    \* stop
    Body(TRUE, "invalid", "absent", ""),        \* blanks only
    Body(FALSE, "invalid", "absent", "") }      \* bytes that are no UTF-8
Requests ==
  [method : {"POST", "GET"},
   auth   : {NoHeader, "", "ktpvps2026", AUTH_KEY},
   path   : RequestPaths,
   length : {NoHeader, "0", "7", "abc"},
   body   : RequestBodies]

\* send_json(code, data): one response goes out.
send_json(code) == responses' = Append(responses, code)
\* An exception no handler catches leaves the request handler: the server
\* logs it and closes the connection, and no response is sent.
Uncaught ==
  /\ relayPc' = "crashed"
  /\ UNCHANGED <<relayPort, responses, pipeWritten, restarted>>
\* The handler returns after one response and without a side effect.
Respond(code) ==
  /\ send_json(code)
  /\ relayPc' = "end"
  /\ UNCHANGED <<relayPort, pipeWritten, restarted>>

\* The auth check left out: every request passes.
AuthorizedAny(auth) == TRUE
\* if auth != AUTH_KEY: 401
Authorized(auth) == HeaderGet(auth, "") = AUTH_KEY

do_POST ==
  /\ relayPc = "request" /\ request.method = "POST"
  /\ LET parts == PathParts(request.path) IN
       IF ~Authorized(request.auth) THEN Respond(401)
       ELSE IF Len(parts) # 3 \/ parts[1] # "hltv" THEN Respond(400)
       ELSE IF parts[2] \notin DOMAIN PyInt THEN Respond(400)
       ELSE IF PyInt[parts[2]] \notin VALID_PORTS THEN Respond(400)
       ELSE IF parts[3] \in {"command", "restart"}
            THEN /\ relayPc' = "handle_" \o parts[3]
                 /\ relayPort' = PyInt[parts[2]]
                 /\ UNCHANGED <<responses, pipeWritten, restarted>>
            ELSE Respond(400)
  /\ UNCHANGED <<request, pipeExists>>
  /\ UNCHANGED <<inputVars, remoteVars, ctlVars, localVars, resultVars,
                 histVars, mkVars, rerunVars, namesVars>>

\* data = json.loads(body); command = data.get("command", "").strip(), with
\* command = body.strip() when json.loads raises JSONDecodeError.  A JSON
\* value with no get, or a command with no strip, raises AttributeError.
CommandOf(body) ==
  IF body.json = "invalid" THEN [raised |-> FALSE, command |-> body.text]
  ELSE IF body.json = "object" /\ body.field = "absent"
       THEN [raised |-> FALSE, command |-> ""]
  ELSE IF body.json = "object" /\ body.field = "string"
       THEN [raised |-> FALSE, command |-> body.text]
  ELSE [raised |-> TRUE, command |-> ""]

handle_command ==
  /\ relayPc = "handle_command"
  /\ LET length == HeaderGet(request.length, "0")
         parsed == CommandOf(request.body)
     IN IF length \notin DOMAIN PyInt THEN Uncaught
        ELSE IF PyInt[length] = 0 THEN Respond(400)
        ELSE IF ~request.body.utf8 THEN Uncaught
        ELSE IF parsed.raised THEN Uncaught
        ELSE IF parsed.command = "" THEN Respond(400)
        ELSE IF ~pipeExists THEN Respond(500)
        ELSE \/ /\ pipeWritten' = Append(pipeWritten, <<relayPort, parsed.command>>)
                /\ send_json(200)
                /\ relayPc' = "end"
                /\ UNCHANGED <<relayPort, restarted>>
             \/ Respond(500)
  /\ UNCHANGED <<request, pipeExists>>
  /\ UNCHANGED <<inputVars, remoteVars, ctlVars, localVars, resultVars,
                 histVars, mkVars, rerunVars, namesVars>>

handle_restart ==
  /\ relayPc = "handle_restart"
  /\ \E outcome \in {"zero", "nonzero", "timeout", "raised"} :
       /\ restarted' = IF outcome = "raised" THEN restarted
                       ELSE Append(restarted, relayPort)
       /\ send_json(IF outcome = "zero" THEN 200 ELSE 500)
  /\ relayPc' = "end"
  /\ UNCHANGED <<request, relayPort, pipeExists, pipeWritten>>
  /\ UNCHANGED <<inputVars, remoteVars, ctlVars, localVars, resultVars,
                 histVars, mkVars, rerunVars, namesVars>>

do_GET ==
  /\ relayPc = "request" /\ request.method = "GET"
  /\ Respond(IF request.path = <<"", "health">> THEN 200 ELSE 404)
  /\ UNCHANGED <<request, pipeExists>>
  /\ UNCHANGED <<inputVars, remoteVars, ctlVars, localVars, resultVars,
                 histVars, mkVars, rerunVars, namesVars>>

\* One request reaches the handler; the orchestrator is not running.
InitRelay ==
  /\ request \in Requests /\ pipeExists \in BOOLEAN
  /\ relayPc = "request" /\ relayPort = 0
  /\ responses = <<>> /\ pipeWritten = <<>> /\ restarted = <<>>
  /\ clusters = <<>> /\ components = <<>>
  /\ dry_run = FALSE /\ deploy_configs_flag = FALSE /\ configure_names = FALSE
  /\ notify_discord = FALSE /\ hasTemplates = TRUE /\ artifacts = Sources
  /\ fs = [h \in Hosts |-> LayoutFs(h, "fresh")]
  /\ layout = [h \in Hosts |-> "fresh"] /\ down = {}
  /\ baks = [h \in Hosts |-> <<>>] /\ cpJobs = {} /\ now = 0
  /\ pc = "done" /\ ci = 1 /\ ki = 1 /\ si = 1 /\ pi = 1 /\ ti = 1
  /\ ssh = "none" /\ leaked = 0 /\ dcSuccess = TRUE /\ ret = TRUE
  /\ success = TRUE /\ errors = <<>>
  /\ attempted = {} /\ ops = {} /\ putTried = {} /\ uploaded = {}
  /\ xferErr = {} /\ faults = MaxFaults /\ notified = 0 /\ payload = NoPayload
  /\ tree = NoTree /\ target = <<>> /\ mkCalls = 0 /\ mkIssued = <<>>
  /\ treeBefore = NoTree
  /\ run = 1 /\ first = NoFirst /\ cfgBefore = <<>>

NextRelay ==
  \/ do_POST
  \/ handle_command
  \/ handle_restart
  \/ do_GET

SpecRelay == InitRelay /\ [][NextRelay]_vars

(***************************************************************************)
(* Notions the properties are stated with.                                 *)
(***************************************************************************)
\* The requested clusters the configuration holds.
KnownClusters == SeqRange(clusters) \cap DOMAIN Config_clusters
\* The positions of the error list that name cluster c.
ErrorsOf(c) == {i \in DOMAIN errors : errors[i].cluster = c}
LastError == errors[Len(errors)]
\* The uploads a complete deployment to cluster c consists of, named as
\* CurFile names them, and the destination of one.
ExpectedFiles(c) ==
  UNION {{<<c, components[k], Config_clusters[c].ports[s], j>> :
            s \in DOMAIN Config_clusters[c].ports,
            j \in DOMAIN component_paths(components[k])} : k \in DOMAIN components}
DestOf(f) == DestPath(server_dir(f[3]), component_paths(f[2])[f[4]])
NoBackups == \A c \in Hosts : DOMAIN baks[c] = {}
\* The requested components the configuration maps no paths for.
Pathless(k) == component_paths(k) = <<>>
PathlessRequested == {k \in SeqRange(components) : Pathless(k)}
\* The requested clusters that have a host and can be reached.
Reachable == (KnownClusters \cap Hosts) \ down

(***************************************************************************)
(* C1  Dry-run purity                                                      *)
(***************************************************************************)
\* C1: in every state of a run with dry_run set, whatever the clusters,
\* components and flags, no connection was attempted or is open, no remote
\* call of any kind (exec, sftp, stat, mkdir, put, chmod, write, post) was
\* issued, no notification was posted, no backup exists or is being made,
\* and the remote file systems are what they were at the start.
DryRunPurity ==
  dry_run =>
    /\ attempted = {} /\ ssh = "none"
    /\ ops = {} /\ putTried = {}
    /\ notified = 0 /\ ~payload.sent
    /\ NoBackups /\ cpJobs = {}
    /\ fs = pre

\* A dry run with every flag set, over two clusters, has completed.
DryRunCompleted ==
  /\ dry_run /\ pc = "done"
  /\ configure_names /\ deploy_configs_flag /\ hasTemplates /\ notify_discord
  /\ Cardinality(KnownClusters \cap Hosts) = 2

(***************************************************************************)
(* C2  Backup before overwrite                                             *)
(***************************************************************************)
\* C2: at the end of a real run (stated here for the runs in which no remote
\* call failed), every uploaded destination that existed before the run has
\* a backup <basename>.<timestamp>.bak in the host's backup directory that
\* holds the destination's content from before the run; and a host on which
\* no upload had an existing destination has no backup.
BackupBeforeOverwrite ==
  (pc = "done" /\ ~dry_run /\ faults = 0) =>
    \A c \in Hosts :
      /\ \A f \in {g \in uploaded : g[1] = c /\ DestOf(g) \in DOMAIN pre[c]} :
            \E n \in DOMAIN baks[c] :
              /\ n[1] = basename(DestOf(f))
              /\ baks[c][n] = pre[c][DestOf(f)].data
      /\ (\A f \in {g \in putTried : g[1] = c} : DestOf(f) \notin DOMAIN pre[c])
            => DOMAIN baks[c] = {}

(***************************************************************************)
(* C3  Aggregate-failure propagation                                       *)
(***************************************************************************)
\* C3: in every state the success flag is true exactly when the error list
\* is empty; and once an operation (a component deployment, the name
\* configuration, the config deployment) has returned to deploy, the error
\* list ends with that operation's entry for the cluster if it returned
\* False, and holds no such entry if it returned True.
AggregateFailure ==
  /\ success <=> (errors = <<>>)
  /\ (pc = "comp" /\ ki > 1) =>
       LET e == Err(CurCluster, "Failed to deploy", components[ki - 1]) IN
       IF ret THEN e \notin SeqRange(errors)
       ELSE ~success /\ LastError = e
  /\ (pc = "comp" /\ ki = 1 /\ configure_names) =>
       LET e == Err(CurCluster, "Failed to configure server names", "") IN
       IF ret THEN e \notin SeqRange(errors)
       ELSE ~success /\ LastError = e
  /\ (pc = "cluster" /\ ci > 1 /\ deploy_configs_flag
        /\ clusters[ci - 1] \in DOMAIN Config_clusters) =>
       LET e == Err(clusters[ci - 1], "Failed to deploy configs", "") IN
       IF ret THEN e \notin SeqRange(errors)
       ELSE ~success /\ LastError = e

\* A real run has completed in which one component failed and a file of
\* another was uploaded.
PartialFailureDone ==
  /\ pc = "done" /\ ~dry_run /\ ~success
  /\ uploaded # {}
  /\ \E i \in DOMAIN errors : errors[i].what = "Failed to deploy"

(***************************************************************************)
(* C4  An unreachable cluster                                              *)
(***************************************************************************)
\* The operations deploy runs on one cluster with a host: the name
\* configuration if asked for, every requested component, and the config
\* deployment if asked for and templates exist.
OperationsPerCluster ==
  (IF configure_names THEN 1 ELSE 0) + Len(components)
    + (IF deploy_configs_flag /\ hasTemplates THEN 1 ELSE 0)

\* C4 (as amended): at the end of a real run, for every cluster that cannot
\* be reached the overall result is false and the error list holds one entry
\* per operation attempted on it (each requested component, the name
\* configuration, the config deployment); and when nothing else fails every
\* file of every reachable cluster is uploaded, whatever the cluster order.
UnreachableClusterLocal ==
  (pc = "done" /\ ~dry_run) =>
    /\ \A c \in down :
          ~success /\ Cardinality(ErrorsOf(c)) = OperationsPerCluster
    /\ (down # {} /\ faults = 0 /\ artifacts = Sources) =>
          \A c \in Reachable : ExpectedFiles(c) \subseteq uploaded

\* C4 as stated: at the end of a real run over several clusters, one
\* unreachable and the others reachable, that deploys components with path
\* mappings, the result is false, the error list holds exactly one entry for
\* the unreachable cluster however many components are requested, and (when
\* nothing else fails) every file of the reachable clusters is uploaded.
ExactlyOneConnectivityEntry ==
  (pc = "done" /\ ~dry_run /\ ~configure_names /\ ~deploy_configs_flag
     /\ PathlessRequested = {} /\ Cardinality(down) = 1 /\ Reachable # {}) =>
    /\ \A c \in down : ~success /\ Cardinality(ErrorsOf(c)) = 1
    /\ (faults = 0 /\ artifacts = Sources) =>
          \A c \in Reachable : ExpectedFiles(c) \subseteq uploaded

\* The first of two clusters was unreachable and both components of the
\* second were uploaded.
UnreachableFirstDone ==
  /\ pc = "done" /\ ~dry_run
  /\ Len(clusters) = 2 /\ Len(components) = 2
  /\ clusters[1] \in down /\ clusters[2] \in Reachable
  /\ ExpectedFiles(clusters[2]) \subseteq uploaded

(***************************************************************************)
(* C5  Transfer errors                                                     *)
(***************************************************************************)
DcPcs == {"dc_connect", "dc_sftp", "dc_loop", "dc_stat", "dc_mkdir",
          "dc_bk_test", "dc_bk_mkdir", "dc_bk_cp", "dc_put", "dc_chmod"}

\* C5 (as amended): once an upload or a chmod has failed in a call of
\* deploy_component, its success flag is false, it returns False, and the
\* overall result is failure from then on; a missing source artifact alone
\* is skipped with a warning and the call still returns True.
UploadErrorFlips ==
  /\ (xferErr \cap {"put", "chmod"} # {}) =>
        /\ pc \in DcPcs => ~dcSuccess
        /\ pc = "comp_ret" => ~ret
        /\ pc \notin DcPcs \cup {"comp_ret"} => ~success
  /\ (pc = "comp_ret" /\ xferErr = {"missing"} /\ faults = 0) => ret

\* C5 as stated: a missing source, a failed upload or a failed chmod makes
\* deploy_component return False and the overall result a failure.
TransferErrorFlips ==
  (xferErr # {}) =>
     /\ pc = "comp_ret" => ~ret
     /\ pc \notin DcPcs \cup {"comp_ret"} => ~success

\* deploy_component is returning after a chmod failed and an upload was done.
PermissionFailureReturned ==
  /\ pc = "comp_ret" /\ "chmod" \in xferErr /\ ~ret
  /\ \E f \in uploaded : f[1] = CurCluster /\ f[2] = CurComponent /\ f[4] = 2

UnknownClusters == SeqRange(clusters) \ DOMAIN Config_clusters

\* C7: for a requested cluster name the configuration does not hold, deploy
\* appends exactly one error ("Unknown cluster") and sets the result to
\* failure in the step that meets it, never connects to it, has done nothing
\* remote when it is the first cluster, and goes on: the run ends past the
\* last cluster, and in a real run every configured cluster requested was
\* connected to or has an error of its own.
UnknownClusterRecorded ==
  /\ \A c \in UnknownClusters : c \notin attempted /\ ssh # c
  /\ (pc = "cluster" /\ ci > 1 /\ clusters[ci - 1] \in UnknownClusters) =>
        /\ ~success
        /\ LastError = Err(clusters[ci - 1], "Unknown cluster", "")
        /\ ci = 2 => (attempted = {} /\ ops = {} /\ fs = pre)
  /\ pc = "done" =>
        /\ ci = Len(clusters) + 1
        /\ \A c \in UnknownClusters :
              /\ ~success
              /\ Cardinality(ErrorsOf(c)) = 1
              /\ \A i \in ErrorsOf(c) : errors[i] = Err(c, "Unknown cluster", "")
        /\ (~dry_run /\ UnknownClusters # {}) =>
              \A c \in KnownClusters : c \in attempted \/ ErrorsOf(c) # {}

\* A real run has completed whose first cluster was unknown and in which a
\* file was uploaded to a later one.
UnknownThenDeployed ==
  /\ pc = "done" /\ ~dry_run
  /\ clusters[1] \in UnknownClusters
  /\ \E f \in uploaded : f[1] = clusters[2]

(***************************************************************************)
(* C8  A cluster without an address                                        *)
(***************************************************************************)
\* C8: no connection is ever attempted to a configured cluster whose host is
\* missing or empty, and at the end of a run it has an error recorded.
NoAddressInert ==
  \A c \in KnownClusters :
    NoHost(c) => /\ c \notin attempted
                 /\ pc = "done" => ErrorsOf(c) # {}

(***************************************************************************)
(* C10  A failing backup                                                   *)
(***************************************************************************)
BackupPcs == {"dc_bk_test", "dc_bk_mkdir", "dc_bk_cp"}

\* C10: a step of the backup (the existence test, the creation of the backup
\* directory, the copy) that fails leads to the upload of the same
\* destination over the same session, and changes neither the component's
\* success flag, nor a return value, nor the overall result, nor the error
\* list; and the upload step that follows records its attempt.
BackupFailureNotFatal ==
  [][ /\ (pc \in BackupPcs /\ faults' > faults) =>
           /\ pc' = "dc_put" /\ ssh' = ssh
           /\ UNCHANGED <<ci, ki, si, pi, dcSuccess, ret, leaked, success, errors>>
      /\ (pc = "dc_put" /\ pc' # "dc_put") => CurFile \in putTried' ]_vars

\* A run on installed hosts has completed with success although a call
\* failed: a file was uploaded to a host that holds no backup, and no copy
\* is still running.
BackupFailedUploadDone ==
  /\ pc = "done" /\ success /\ faults > 0 /\ cpJobs = {}
  /\ \E f \in uploaded :
        /\ DestOf(f) \in DOMAIN pre[f[1]]
        /\ DOMAIN baks[f[1]] = {}

(***************************************************************************)
(* C9  _mkdir_p  (checked under SpecMkdir)                                 *)
(***************************************************************************)
\* Every directory on the way to p can be made: each existing prefix of p is
\* a directory, and the deepest of them lets entries be created when a
\* prefix is missing.
Creatable(t, p) ==
  /\ \A q \in Prefixes(p) : Exists(t, q) => IsDir(t, q)
  /\ \A q \in Prefixes(p) \ {<<>>} :
        (~Exists(t, q) /\ Exists(t, dirname(q))) => PermitsCreate(t, dirname(q))

\* What holds of every call, whatever the tree: the sftp.mkdir calls issued
\* are exactly the missing prefixes of the target, parent before child, and
\* nothing that existed is changed.
MkdirWalk ==
  /\ SeqRange(mkIssued) = {q \in Prefixes(target) : ~Exists(treeBefore, q)}
  /\ \A i \in 1..(Len(mkIssued) - 1) : mkIssued[i] = dirname(mkIssued[i + 1])
  /\ \A q \in DOMAIN treeBefore : q \in DOMAIN tree /\ tree[q] = treeBefore[q]

\* C9 (as amended): from any tree and any target, _mkdir_p issues mkdir for
\* exactly the missing ancestors in root-to-leaf order and leaves what exists
\* untouched; when every existing ancestor of the target is a directory and
\* the deepest one permits creation, the target and all its ancestors are
\* directories afterwards, and a second call issues no mkdir; a second call
\* never changes the tree.
MkdirEnsures ==
  mkCalls >= 1 =>
    /\ MkdirWalk
    /\ Creatable(treeBefore, target) =>
          \A q \in Prefixes(target) : IsDir(tree, q)
    /\ mkCalls = 2 =>
          /\ tree = treeBefore
          /\ Creatable(treeBefore, target) => mkIssued = <<>>

\* C9 as stated: from any tree and any target the target and all its
\* ancestors exist afterwards, and a second call issues no mkdir and changes
\* nothing.
MkdirEnsuresAnyTree ==
  mkCalls >= 1 =>
    /\ MkdirWalk
    /\ \A q \in Prefixes(target) : Exists(tree, q)
    /\ mkCalls = 2 => (tree = treeBefore /\ mkIssued = <<>>)

\* A first call has created a chain of two directories or more.
MkdirCreatedChain ==
  /\ mkCalls = 1 /\ Len(mkIssued) >= 2
  /\ Creatable(treeBefore, target) /\ IsDir(tree, target)

(***************************************************************************)
(* C11  A failing template                                                 *)
(***************************************************************************)
\* C11: a step of deploy_configs that renders or writes a template and
\* raises is followed, over the same session and for the same server
\* instance, by the next template: the remaining templates and instances are
\* still rendered and written.
RenderErrorPerTemplate ==
  [][ (pc \in {"cf_tmpl", "cf_write"} /\ faults' > faults) =>
        (pc' = "cf_tmpl" /\ ti' = ti + 1 /\ si' = si /\ ssh' = ssh) ]_vars

(***************************************************************************)
(* C12  One backup per overwritten destination                             *)
(***************************************************************************)
\* C12: at the end of a real run without a failing call on hosts where every
\* destination exists beforehand, each host holds as many backup files as
\* (server instance, path mapping) pairs were uploaded to it: backups of
\* files of the same name in different instances do not replace one another.
OneBackupPerDestination ==
  (pc = "done" /\ ~dry_run /\ faults = 0
     /\ \A c \in Hosts : layout[c] = "installed") =>
    \A c \in Hosts :
      Cardinality(DOMAIN baks[c]) = Cardinality({f \in uploaded : f[1] = c})

(***************************************************************************)
(* C13  Every invocation completes                                         *)
(***************************************************************************)
\* Where deploy is: the cluster, the stage of its work on it, the component,
\* the phase of the operation, the server instance, the mapping or template,
\* and the step on that file.
Stage ==
  CASE pc = "deploy" -> 0
    [] pc = "cluster" -> 1
    [] pc \in {"cs_begin", "cs_connect", "cs_mkdir", "cs_test", "cs_update",
               "cs_create", "names_ret"} -> 2
    [] pc \in {"configs", "cf_begin", "cf_connect", "cf_sftp", "cf_mkdir",
               "cf_tmpl", "cf_write", "configs_ret"} -> 4
    [] pc = "banner" -> 5
    [] pc = "nt_send" -> 6
    [] pc = "done" -> 7
    [] OTHER -> 3
Phase ==
  CASE pc \in {"comp", "configs"} -> 0
    [] pc \in {"cs_begin", "dc_begin", "cf_begin"} -> 1
    [] pc \in {"cs_connect", "dc_connect", "cf_connect"} -> 2
    [] pc \in {"dc_sftp", "cf_sftp"} -> 3
    [] pc \in {"names_ret", "comp_ret", "configs_ret"} -> 5
    [] pc \in {"deploy", "cluster", "banner", "nt_send", "done"} -> 0
    [] OTHER -> 4
FileStep ==
  CASE pc \in {"dc_stat", "cs_test", "cf_write"} -> 1
    [] pc \in {"dc_mkdir", "cs_update", "cs_create"} -> 2
    [] pc = "dc_bk_test" -> 3
    [] pc = "dc_bk_mkdir" -> 4
    [] pc = "dc_bk_cp" -> 5
    [] pc = "dc_put" -> 6
    [] pc = "dc_chmod" -> 7
    [] OTHER -> 0
Position ==
  << ci, Stage,
     IF Stage = 3 THEN ki ELSE 0,
     Phase,
     IF Phase = 4 THEN si ELSE 0,
     IF Phase = 4 /\ Stage = 3 THEN pi
     ELSE IF pc \in {"cf_tmpl", "cf_write"} THEN ti ELSE 0,
     FileStep >>
\* a comes before b in the lexicographic order.
Before(a, b) ==
  \E i \in 1..Len(a) : a[i] < b[i] /\ \A j \in 1..(i - 1) : a[j] = b[j]

\* C13: whatever remote calls fail, a run never stops short of the end of
\* deploy (a step can be taken in every state but the last, and no exception
\* is left uncaught) and never goes round: every step of deploy moves it
\* forward, a step of a remote host ends a pending copy.  At the end
\* every requested cluster has been gone through and the exit code is 0
\* exactly when no error was recorded, 1 otherwise.
InvocationCompletes ==
  /\ [](/\ pc # "uncaught"
        /\ pc = "done" \/ ENABLED Next
        /\ pc = "done" =>
             /\ ci = Len(clusters) + 1
             /\ exit_code = IF errors = <<>> THEN 0 ELSE 1)
  /\ [][ \/ Before(Position, Position')
         \/ UNCHANGED ctlVars /\ Cardinality(cpJobs') < Cardinality(cpJobs) ]_vars

\* A real run has ended with exit code 1 after a remote call raised during
\* the work on a host that was connected to.
FailedRunCompleted ==
  /\ pc = "done" /\ ~dry_run /\ exit_code = 1
  /\ faults > 0 /\ down = {} /\ leaked > 0

(***************************************************************************)
(* C14  The notification is advisory                                       *)
(***************************************************************************)
\* C14: the step that notifies leaves the result of deploy (success and the
\* error list) as it found it, whether the post is skipped because no relay
\* is configured, answered with 200 or another status, or raises; a post is
\* made at most once in a run, and only after all the requested clusters
\* have been gone through.
NotificationAdvisory ==
  [][ /\ pc = "nt_send" => (pc' \in {"nt_send", "done"} /\ UNCHANGED <<success, errors>>)
      /\ notified' # notified =>
           /\ pc = "nt_send"
           /\ notified = 0 /\ notified' = 1
           /\ ci = Len(clusters) + 1 ]_vars

\* A successful real run has ended after a post that failed.
FailedPostSuccessfulRun ==
  /\ pc = "done" /\ ~dry_run /\ notify_discord
  /\ notified = 1 /\ payload.sent /\ ~ret
  /\ success /\ errors = <<>> /\ uploaded # {}

(***************************************************************************)
(* C15  Session lifecycle                                                  *)
(***************************************************************************)
\* C15: when deploy moves on to the next cluster, and when it returns, every
\* session it opened has been closed, whichever way the operations ended;
\* and a session in use is always the one opened for the cluster at hand.
SessionsClosed ==
  /\ pc \in {"cluster", "banner", "nt_send", "done"} => (ssh = "none" /\ leaked = 0)
  /\ ssh # "none" => (ci <= Len(clusters) /\ ssh = CurCluster)

(***************************************************************************)
(* C16  Per-file ordering                                                  *)
(***************************************************************************)
\* C16: when the upload to a destination starts, no backup copy of that
\* destination is still running; and the permissions are set only after the
\* upload of that file has succeeded and only for a mapping that names them.
PerFileOrdering ==
  /\ pc = "dc_put" => ~\E job \in cpJobs : job.host = ssh /\ job.src = CurDest
  /\ pc = "dc_chmod" => (CurFile \in uploaded /\ CurMapping.chmod # "")

(***************************************************************************)
(* C17  Continue past per-file failures                                    *)
(***************************************************************************)
\* The steps on one file: the check and the creation of the destination
\* directory, the backup, the upload, the permissions.
FilePcs == {"dc_stat", "dc_mkdir"} \cup BackupPcs \cup {"dc_put", "dc_chmod"}

\* C17: a step on one file, failed or not, is followed by a further step on
\* that file or by the loop going on to the next mapping over the same
\* session; the call never ends in the middle of a file.
ContinuePastFileFailure ==
  [][ (pc \in FilePcs) =>
        (/\ pc' \in FilePcs \cup {"dc_loop"}
         /\ ssh' = ssh
         /\ si' = si
         /\ pi' \in {pi, pi + 1}) ]_vars

(***************************************************************************)
(* C18  The order of the error list                                        *)
(***************************************************************************)
\* The place of x in the sequence s of distinct elements.
IndexOf(s, x) == CHOOSE i \in DOMAIN s : s[i] = x
\* Where the operation an entry stands for comes in the run: the cluster,
\* the kind of operation, the component.
ErrorKey(e) ==
  << IndexOf(clusters, e.cluster),
     CASE e.what = "Unknown cluster" -> 0
       [] e.what = "Failed to configure server names" -> 1
       [] e.what = "Failed to deploy" -> 2
       [] e.what = "Failed to deploy configs" -> 3,
     IF e.what = "Failed to deploy" THEN IndexOf(components, e.arg) ELSE 0 >>
\* The entry for the operation deploy has just had the result of.
FailedOperation ==
  \/ pc \in {"names_ret", "comp_ret", "configs_ret"} /\ ~ret
  \/ pc = "cluster" /\ ci <= Len(clusters) /\ CurCluster \notin KnownClusters
EntryOfOperation ==
  CASE pc = "names_ret" -> Err(CurCluster, "Failed to configure server names", "")
    [] pc = "comp_ret" -> Err(CurCluster, "Failed to deploy", CurComponent)
    [] pc = "configs_ret" -> Err(CurCluster, "Failed to deploy configs", "")
    [] pc = "cluster" -> Err(CurCluster, "Unknown cluster", "")

\* C18: the error list is in the order of the run (by requested cluster;
\* within a cluster the names entry, the component entries in the order
\* requested, the configs entry) without a repeated entry, and it changes
\* only when deploy has the result of a failed operation, by the entry of
\* that operation being added at its end.
ErrorListOrder ==
  /\ [](\A i, j \in DOMAIN errors :
          i < j => Before(ErrorKey(errors[i]), ErrorKey(errors[j])))
  /\ [][ IF FailedOperation /\ ctlVars' # ctlVars
         THEN errors' = Append(errors, EntryOfOperation)
         ELSE errors' = errors ]_vars

\* A run has ended with entries for two clusters, two of them for the same
\* cluster.
SeveralErrorsRecorded ==
  /\ pc = "done"
  /\ \E i, j, k \in DOMAIN errors :
       /\ i < j /\ j < k
       /\ errors[i].cluster # errors[k].cluster
       /\ errors[i].cluster = errors[j].cluster \/ errors[j].cluster = errors[k].cluster

(***************************************************************************)
(* C19  No retry                                                           *)
(***************************************************************************)
\* C19: the upload of a file (cluster, component, server instance, mapping)
\* is attempted only if it was not attempted before in the run; an upload
\* that fails is followed by the next mapping; and no step of deploy takes
\* the run back to an earlier cluster, component, instance, file or step,
\* nor out of its final state or into its initial one.
NoRetry ==
  [][ /\ (pc = "dc_put" /\ ctlVars' # ctlVars) =>
           (/\ CurFile \notin putTried
            /\ putTried' = putTried \cup {CurFile}
            /\ uploaded' = uploaded => (pc' = "dc_loop" /\ pi' = pi + 1 /\ si' = si))
      /\ putTried' # putTried => pc = "dc_put"
      /\ Position' = Position \/ Before(Position, Position')
      /\ pc = "done" => pc' = "done"
      /\ pc' = "deploy" => pc = "deploy" ]_vars

\* A run has ended in which an upload failed and a later upload to the same
\* cluster succeeded.
FailedUploadSkipped ==
  /\ pc = "done"
  /\ \E f \in putTried \ uploaded, g \in uploaded :
       f[1] = g[1] /\ (f[3] # g[3] \/ f[4] < g[4])

(***************************************************************************)
(* C20  A failed name configuration is isolated                            *)
(***************************************************************************)
NamesError(c) == Err(c, "Failed to configure server names", "")
\* The files of component k for cluster c whose local artifact exists.
FilesToUpload(c, k) ==
  {f \in ExpectedFiles(c) : f[2] = k /\ component_paths(k)[f[4]].source \in artifacts}
\* The rendered templates are on every server instance of c.
ConfigsWritten(c) ==
  \A s \in DOMAIN Config_clusters[c].ports, t \in DOMAIN list_templates :
    IsTemplate(list_templates[t]) =>
      IsFile(fs[c], tmpl_config_dir(server_dir(Config_clusters[c].ports[s]))
                      \o <<dest_name(list_templates[t])>>)

\* C20: at the end of a real run, for every cluster whose name configuration
\* failed, the error list holds exactly one entry saying so and the result
\* is failure; and on that cluster and every other configured cluster
\* requested, every component was deployed (its files are uploaded) or has
\* its own error entry, and so has the config deployment when asked for.
NameFailureIsolated ==
  (pc = "done" /\ ~dry_run) =>
    \A c \in KnownClusters :
      NamesError(c) \in SeqRange(errors) =>
        /\ Cardinality({i \in DOMAIN errors : errors[i] = NamesError(c)}) = 1
        /\ ~success
        /\ \A d \in KnownClusters :
             /\ \A k \in SeqRange(components) :
                  \/ Err(d, "Failed to deploy", k) \in SeqRange(errors)
                  \/ d \in Hosts /\ FilesToUpload(d, k) \subseteq uploaded
             /\ (deploy_configs_flag /\ hasTemplates) =>
                  \/ Err(d, "Failed to deploy configs", "") \in SeqRange(errors)
                  \/ d \in Hosts /\ ConfigsWritten(d)

\* A run has ended in which the name configuration of a cluster failed on a
\* host that was connected to, and the component was then uploaded to it and
\* its configs were written.
NamesFailedRestDone ==
  /\ pc = "done" /\ ~dry_run /\ down = {}
  /\ clusters = <<"atl">> /\ deploy_configs_flag
  /\ errors = <<NamesError("atl")>>
  /\ FilesToUpload("atl", components[1]) # {}
  /\ FilesToUpload("atl", components[1]) \subseteq uploaded
  /\ ConfigsWritten("atl")

(***************************************************************************)
(* C21  Re-run idempotence (under SpecRerun)                               *)
(***************************************************************************)
\* A remote file system without the backups and their directories.
BackupsAside(f) ==
  LET top == home_dir \o <<"backups">> IN
  [q \in {r \in DOMAIN f : Len(r) < Len(top) \/ SubSeq(r, 1, Len(top)) # top} |-> f[q]]

\* C21: when the second of two runs of the same real invocation without
\* remote failures has ended, the remote file systems, backups aside (every
\* destination file with its content and permission bits, every server-name
\* config file, every rendered config), are what the first run left, and
\* the result and the error list are those of the first run.
RerunIdempotent ==
  (run = 2 /\ pc = "done") =>
    /\ \A c \in Hosts : BackupsAside(fs[c]) = BackupsAside(first.fs[c])
    /\ success = first.success
    /\ errors = first.errors

\* The second run has ended after uploading over the files the first run
\* put in place of older ones, and after setting the server names again.
SecondRunDone ==
  /\ run = 2 /\ pc = "done"
  /\ configure_names /\ uploaded # {} /\ success
  /\ first.fs # pre
  /\ \E c \in Hosts : DOMAIN baks[c] # {}

(***************************************************************************)
(* C23  The cap of the error list in the notification                      *)
(***************************************************************************)
\* C23: a payload that was posted carries, for a failed run with n errors,
\* an errors field with the first min(n, 5) errors in their order and a
\* count of n - 5 further ones exactly when n > 5 (none otherwise); for a
\* successful run it carries no errors field.
NotificationErrorCap ==
  payload.sent =>
    LET n == Len(errors) IN
    /\ payload.ok = success
    /\ success => (~payload.field /\ payload.shown = <<>> /\ payload.more = 0)
    /\ ~success =>
         /\ payload.field
         /\ Len(payload.shown) = (IF n < 5 THEN n ELSE 5)
         /\ \A i \in DOMAIN payload.shown : payload.shown[i] = errors[i]
         /\ payload.more = (IF n > 5 THEN n - 5 ELSE 0)

\* A notification was posted for a run that recorded more than five errors.
LongErrorListPosted ==
  /\ pc = "done" /\ payload.sent
  /\ Len(errors) > 5 /\ payload.more > 0

(***************************************************************************)
(* C22  The result of the server-name configuration (under SpecNames)      *)
(***************************************************************************)
\* The positions of the servername lines of a config.
NameLines(l) == {n \in DOMAIN l : l[n].key = "servername"}
\* configure_server_names has returned True for the cluster.
NamesConfigured == pc = "names_ret" /\ ret
\* What holds of the config of the i-th port of cluster c after the step,
\* the number of its servername lines apart: the file exists, its servername
\* lines carry the name (c, i); a file that was there has its servername
\* lines replaced where they were and its other lines kept, or the line
\* appended if it had none; a file that was not there holds the port, the
\* client port port - 10 and the name.
CfgResult(c, i) ==
  LET port   == Config_clusters[c].ports[i]
      f      == lgsm_config_file(port, i)
      before == cfgBefore[i]
      after  == fs[c][f].lines
  IN /\ IsFile(fs[c], f)
     /\ NameLines(after) # {}
     /\ \A n \in NameLines(after) : after[n].val = <<c, i>>
     /\ IF ~before.present
        THEN /\ \E n \in DOMAIN after : after[n] = [key |-> "port", val |-> <<"", port>>]
             /\ \E n \in DOMAIN after :
                  after[n] = [key |-> "clientport", val |-> <<"", port - 10>>]
        ELSE IF NameLines(before.lines) = {}
        THEN after = Append(before.lines, [key |-> "servername", val |-> <<c, i>>])
        ELSE /\ Len(after) = Len(before.lines)
             /\ NameLines(after) = NameLines(before.lines)
             /\ \A n \in DOMAIN after \ NameLines(after) : after[n] = before.lines[n]

\* C22 (as amended): after the step, for the i-th port of the cluster, the
\* config file is as CfgResult says, and it has exactly one servername line
\* when it had at most one before and as many as before otherwise.
NameConfigResult ==
  NamesConfigured =>
    \A i \in DOMAIN Config_clusters[clusters[1]].ports :
      LET c == clusters[1]
          before == cfgBefore[i]
          after  == fs[c][lgsm_config_file(Config_clusters[c].ports[i], i)].lines
      IN /\ CfgResult(c, i)
         /\ Cardinality(NameLines(after)) =
              (IF Cardinality(NameLines(before.lines)) <= 1 THEN 1
               ELSE Cardinality(NameLines(before.lines)))

\* C22 (as stated): after the step, for the i-th port of the cluster, the
\* config file is as CfgResult says and has exactly one servername line.
ExactlyOneNameLine ==
  NamesConfigured =>
    \A i \in DOMAIN Config_clusters[clusters[1]].ports :
      LET c == clusters[1]
          after == fs[c][lgsm_config_file(Config_clusters[c].ports[i], i)].lines
      IN /\ CfgResult(c, i)
         /\ Cardinality(NameLines(after)) = 1

\* The names of a cluster with two instances were configured: the first
\* config had a servername line among others, the second did not exist.
NamesPatchedAndCreated ==
  /\ NamesConfigured
  /\ clusters = <<"atl">>
  /\ cfgBefore[1].present /\ Cardinality(NameLines(cfgBefore[1].lines)) = 1
  /\ ~cfgBefore[2].present

(***************************************************************************)
(* The command relay.                                                      *)
(***************************************************************************)
\* A pipe was written or a restart was issued.
SideEffect == pipeWritten # <<>> \/ restarted # <<>>

\* C24: a POST request whose X-Auth-Key header is absent or differs from the
\* configured key is answered with 401 alone, whatever its path and body,
\* and neither writes a pipe nor issues a restart; a request that wrote a
\* pipe or issued a restart carried the configured key.
RelayAuthentication ==
  /\ (request.method = "POST" /\ request.auth # AUTH_KEY) =>
       /\ ~SideEffect
       /\ relayPc \in {"request", "end"}
       /\ relayPc = "end" => responses = <<401>>
  /\ SideEffect => request.auth = AUTH_KEY

\* A well-formed command request without the header has been answered.
UnauthorizedRejected ==
  /\ relayPc = "end" /\ responses = <<401>>
  /\ request.method = "POST" /\ request.auth = NoHeader
  /\ request.path = <<"", "hltv", "27020", "command">>
  /\ request.length = "7" /\ request.body = Body(TRUE, "object", "string", "status")
  /\ pipeExists

\* The paths /hltv/<port>/command and /hltv/<port>/restart with an integer
\* port in 27020..27044.
ExactPath(p) ==
  /\ Len(p) = 4 /\ p[1] = "" /\ p[2] = "hltv"
  /\ p[3] \in DOMAIN PyInt /\ PyInt[p[3]] \in 27020..27044
  /\ p[4] \in {"command", "restart"}
\* The request carries no command: no body, or a body whose command is empty.
EmptyCommand(r) ==
  \/ HeaderGet(r.length, "0") = "0"
  \/ r.body.utf8 /\ ~CommandOf(r.body).raised /\ CommandOf(r.body).command = ""

\* C25: a pipe is written or a restart issued only for a path of the exact
\* form /hltv/<port>/command or /hltv/<port>/restart with an integer port in
\* 27020..27044; an authenticated POST with any other path, or with an empty
\* command body, is answered with 400 and has no side effect; and a request
\* that has been handled received exactly one response.
RelayValidation ==
  /\ SideEffect => ExactPath(request.path)
  /\ ( /\ relayPc \in {"end", "crashed"}
       /\ request.method = "POST" /\ Authorized(request.auth)
       /\ \/ ~ExactPath(request.path)
          \/ request.path[4] = "command" /\ EmptyCommand(request) )
     => responses = <<400>> /\ ~SideEffect
  /\ relayPc \in {"end", "crashed"} => Len(responses) = 1

=============================================================================
